---- MODULE Spec2Model ----
(***************************************************************************)
(* QuantelGateway (src/src/quantelGateway.ts): the Session fields, the     *)
(* request dispatch path with its reconnect-and-retry recovery, the        *)
(* server cache and the status monitor.                                    *)
(*                                                                         *)
(* Three specifications share the definitions below:                       *)
(*   SpecDispatch  one dispatched request at a time through sendRaw, every *)
(*                 HTTP round trip a step, the gateway's replies free;     *)
(*   Spec          the Session with its monitor, application calls and     *)
(*                 poll ticks interleaving at their HTTP round trips;      *)
(*   SpecTick      poll ticks over every server record and monitored-port  *)
(*                 declaration of the bounded input space.                 *)
(* JavaScript values: undefined/'' strings are "", an undefined or 0       *)
(* number is 0 (both falsy), an undefined server record is NoServer.       *)
(***************************************************************************)
EXTENDS Integers, Sequences, FiniteSets, TLC

VARIABLES
    \* QuantelGateway fields (quantelGateway.ts:30-40)
    gatewayUrl, initialized, ISAUrls, zoneId, serverId, monitorInterval,
    statusMessage, cachedServer, monitorPorts, connected,
    \* the runtime: interval timers, suspended calls, pending .then reaction
    timers, inflight, pendingThen, disposed, lastEvent,
    \* one dispatched request (sendRaw): frames, HTTP calls, reconnect calls
    frames, http, reconnectCalls, outcome

fields == <<gatewayUrl, initialized, ISAUrls, zoneId, serverId, monitorInterval,
            statusMessage, cachedServer, monitorPorts, connected>>
runtime == <<timers, inflight, pendingThen, disposed, lastEvent>>
dispatch == <<frames, http, reconnectCalls, outcome>>
vars == <<fields, runtime, dispatch>>

(***************************************************************************)
(* Bounds                                                                  *)
(***************************************************************************)
\* nesting of sendRaw inside reconnectToISA inside sendRaw that is explored
MaxDepth == 3
\* calls suspended at an HTTP round trip at the same time (ticks included)
MaxInFlight == 2
\* monitorServerStatus calls on one Session
MaxMonitors == 1
\* channels of a server record (SpecTick): channel indices 0..MaxChannels-1,
\* numChannels, and the lengths of portNames and chanPorts up to MaxChannels
MaxChannels == 2

(***************************************************************************)
(* HTTP response bodies and what a call settles with                       *)
(***************************************************************************)
ISA_SIGNAL == "First provide a Quantel ISA connection URL (e.g. POST to /connect)."
ISA_SIGNAL_UPPER == "FIRST PROVIDE A QUANTEL ISA CONNECTION URL"
NOT_FOUND_REQUEST == "Not found. Request GET /default/clip/42"
OTHER_MESSAGE == "Internal server error"
NOT_FOUND_THING == "Not found. A clip with identifier '42' was not found."
MENTIONS_404 == "ISA manager replied with code 404"

\* (message + '').match(/first provide a quantel isa/i), on the messages used
MatchesProvideISA(message) == message \in {ISA_SIGNAL, ISA_SIGNAL_UPPER}

\* A decoded JSON body. obj: a non-null object; hasStatus: own property
\* 'status'; statusIsNum, msgIsStr, stackIsStr: the typeof tests; servers: the
\* payload of a server listing; flag: the payload's success, wiped or released
\* property, "undefined" when it has none.
Body(obj, hasStatus, statusIsNum, status, msgIsStr, stackIsStr, message, servers) ==
    [obj |-> obj, hasStatus |-> hasStatus, statusIsNum |-> statusIsNum,
     status |-> status, msgIsStr |-> msgIsStr, stackIsStr |-> stackIsStr,
     message |-> message, servers |-> servers, flag |-> "undefined"]

ErrorBody(status, message) == Body(TRUE, TRUE, TRUE, status, TRUE, TRUE, message, <<>>)
Payload(servers) == Body(TRUE, FALSE, FALSE, 0, FALSE, FALSE, "", servers)
\* a Q.TriggerResult, Q.JumpResult, Q.WipeResult or Q.ReleaseStatus
FlagPayload(flag) == [Payload(<<>>) EXCEPT !.flag = flag]

\* An Error: `${status} ${message}\n${stack}` of a gateway error (status # 0),
\* or any other Error or rejection by its text (status 0).
Err(status, message) == [status |-> status, message |-> message, id |-> 0]
NoErr == Err(0, "")

\* What an awaited call settles with: a body returned or an error thrown.
Returned(body) == [kind |-> "return", body |-> body, error |-> NoErr]
Thrown(error) == [kind |-> "throw", body |-> Payload(<<>>), error |-> error]
Pending == [kind |-> "pending", body |-> Payload(<<>>), error |-> NoErr]

\* _isAnErrorResponse: `test.status &&` makes a status of 0 no error
IsAnErrorResponse(response) ==
    /\ response.obj
    /\ response.hasStatus
    /\ response.status # 0
    /\ response.statusIsNum
    /\ response.msgIsStr
    /\ response.stackIsStr
    /\ response.status # 200

\* _ensureGoodResponse without if404ThenNull: an error response is thrown
EnsureGoodResponse(settled) ==
    IF settled.kind = "throw" THEN settled
    ELSE IF IsAnErrorResponse(settled.body)
         THEN Thrown(Err(settled.body.status, settled.body.message))
         ELSE settled

\* _formattedISAUrl: url.replace(/^https?:\/\//, '') of every endpoint, in order
StripScheme(url) ==
    CASE url = "http://isa1" -> "isa1"
      [] url = "https://isa2" -> "isa2"
      [] OTHER -> url

\* (a variant that formats the first endpoint only)
FormattedISAUrlOfMaster(urls) == [i \in 1..1 |-> StripScheme(urls[i])]

FormattedISAUrl(urls) == [i \in 1..Len(urls) |-> StripScheme(urls[i])]

ISA_NOT_SET == Err(0, "Quantel ISAUrls not set!")

(***************************************************************************)
(* Server records, monitored ports, status messages                        *)
(***************************************************************************)
\* Q.ServerInfo: an absent portNames or chanPorts is <<>>, an absent
\* numChannels 0, an empty or absent entry of portNames or chanPorts ""
ServerInfo(ident, down, numChannels, portNames, chanPorts) ==
    [ident |-> ident, down |-> down, numChannels |-> numChannels,
     portNames |-> portNames, chanPorts |-> chanPorts]

\* _cachedServer = undefined, and the null of a search that finds nothing
NoServer == ServerInfo(0, FALSE, 0, <<>>, <<>>)

\* one entry of MonitorPorts, in the order of Object.entries
MonitorPort(id, channels) == [id |-> id, channels |-> channels]

\* a status message: the text with its interpolated values
Diag(kind, id, text, errors) == [kind |-> kind, id |-> id, text |-> text, errors |-> errors]
Healthy == Diag("null", 0, "", <<>>)
\* (a variant of line 37 that starts with the healthy status)
InitializingAsHealthy == Healthy
\* line 37: the status message of a new Session
Initializing == Diag("Initializing...", 0, "", <<>>)
GatewayUrlNotSet == Diag("Gateway URL not set", 0, "", <<>>)
ServerIdNotSet == Diag("QuantelGatewayClient.serverId not set", 0, "", <<>>)
ServerNotFound(id) == Diag("Server ${serverId} not found on ISA", id, "", <<>>)
ServerDown(ident) == Diag("Server ${ident} is down", ident, "", <<>>)
ServerErrorsJoined(errors) == Diag("serverErrors.join", 0, "", errors)
NotInitialized == Diag("Not initialized", 0, "", <<>>)
\* (a variant of the catch clause that drops the text of the exception)
MonitoringErrorNoText(e) == Diag("Error when monitoring status: ${message}", 0, "", <<>>)

\* lines 167-169: (e && e.message) || e.toString() of the exception caught
MonitoringError(e) == Diag("Error when monitoring status: ${message}", e.status, e.message, <<>>)
\* getServerStatus suspended at its await (no status message)
Awaiting == Diag("await", 0, "", <<>>)

\* the two messages of the port check (lines 145 and 156)
AllPortsUsed(portId) ==
    [kind |-> "all ports being already used", port |-> portId, channel |-> 0, other |-> ""]
ChannelAssigned(portId, channel, channelPort) ==
    [kind |-> "channel already assigned to another port", port |-> portId,
     channel |-> channel, other |-> channelPort]

(***************************************************************************)
(* getServerStatus: the port check (lines 132-162)                         *)
(***************************************************************************)
\* line 135-137: find returns the name found, which is falsy when it is ''
PortExists(server, monitorPortId) ==
    /\ monitorPortId # ""
    /\ \E i \in 1..Len(server.portNames) : server.portNames[i] = monitorPortId

\* line 139: portNames.filter(Boolean)
RealPortNames(server) == SelectSeq(server.portNames, LAMBDA portName : portName # "")

\* (a variant that reads chanPorts one channel too low)
ChannelPortBelow(server, monitorChannel) ==
    IF monitorChannel \in 1..Len(server.chanPorts)
    THEN server.chanPorts[monitorChannel]
    ELSE ""

\* line 149: (server.chanPorts || [])[monitorChannel]; "" when undefined
ChannelPort(server, monitorChannel) ==
    IF monitorChannel + 1 \in 1..Len(server.chanPorts)
    THEN server.chanPorts[monitorChannel + 1]
    ELSE ""

\* lines 148-159: the messages for channels[k..], in the order of the loop
RECURSIVE ChannelErrors(_, _, _, _)
ChannelErrors(server, monitorPortId, channels, k) ==
    IF k > Len(channels) THEN <<>>
    ELSE LET channelPort == ChannelPort(server, channels[k])
             here == IF channelPort # "" /\ channelPort # monitorPortId
                     THEN <<ChannelAssigned(monitorPortId, channels[k], channelPort)>>
                     ELSE <<>>
         IN  here \o ChannelErrors(server, monitorPortId, channels, k + 1)

\* (a variant without the test for room of lines 140-146)
PortErrorsChannelsOnly(server, monitorPort) ==
    ChannelErrors(server, monitorPort.id, monitorPort.channels, 1)

\* (a variant that reports no room also while port names are left)
PortErrorsRoomOrLess(server, monitorPort) ==
    IF /\ ~PortExists(server, monitorPort.id)
       /\ Len(RealPortNames(server)) <= server.numChannels
    THEN <<AllPortsUsed(monitorPort.id)>>
    ELSE ChannelErrors(server, monitorPort.id, monitorPort.channels, 1)

\* lines 140-160: what one monitored port pushes on serverErrors
PortErrors(server, monitorPort) ==
    IF /\ ~PortExists(server, monitorPort.id)
       /\ Len(RealPortNames(server)) = server.numChannels
    THEN <<AllPortsUsed(monitorPort.id)>>
    ELSE ChannelErrors(server, monitorPort.id, monitorPort.channels, 1)

\* lines 132-161: serverErrors after the loop over ports[k..]
RECURSIVE ServerErrors(_, _, _)
ServerErrors(server, ports, k) ==
    IF k > Len(ports) THEN <<>>
    ELSE PortErrors(server, ports[k]) \o ServerErrors(server, ports, k + 1)

\* (a variant that tests the initialized flag before the port check)
StatusOfServerInitializedFirst(server, sid, ports, isInitialized) ==
    IF server = NoServer THEN ServerNotFound(sid)
    ELSE IF server.down THEN ServerDown(server.ident)
    ELSE IF ~isInitialized THEN NotInitialized
    ELSE IF ServerErrors(server, ports, 1) # <<>>
         THEN ServerErrorsJoined(ServerErrors(server, ports, 1))
    ELSE Healthy

\* lines 127-166: the status once the server listing has been searched
StatusOfServer(server, sid, ports, isInitialized) ==
    IF server = NoServer THEN ServerNotFound(sid)
    ELSE IF server.down THEN ServerDown(server.ident)
    ELSE IF ServerErrors(server, ports, 1) # <<>>
         THEN ServerErrorsJoined(ServerErrors(server, ports, 1))
    ELSE IF ~isInitialized THEN NotInitialized
    ELSE Healthy

\* (a variant in which line 130 is never reached)
ReachesPortCheckNever(server) == FALSE

\* line 130 is reached: the server was found and is not down
ReachesPortCheck(server) == server # NoServer /\ ~server.down

\* (a variant without the test of the gateway address on line 122)
EarlyStatusNoUrlTest(url, sid) ==
    IF sid = 0 THEN ServerIdNotSet ELSE Awaiting

\* lines 122-124: the status of a tick that returns before its await
EarlyStatus(url, sid) ==
    IF url = "" THEN GatewayUrlNotSet
    ELSE IF sid = 0 THEN ServerIdNotSet
    ELSE Awaiting

\* getServer lines 265-268: servers.find(s => s.ident === this._serverId) || null
RECURSIVE FindServer(_, _, _)
FindServer(servers, sid, k) ==
    IF k > Len(servers) THEN NoServer
    ELSE IF servers[k].ident = sid THEN servers[k]
    ELSE FindServer(servers, sid, k + 1)

\* the callback the application supplied: one that throws when it is called
\* with one of these diagnostics and returns otherwise
CallbackThrowsOn == {"Gateway URL not set", "Server ${ident} is down"}
CallbackThrows(status) == status.kind \in CallbackThrowsOn

\* (a variant of line 176 that passes the truth value of the message)
CallbackConnectedOfMessage(status) == status # Healthy

\* line 176: the first argument of the callback, statusMessage === null
CallbackConnected(status) == status = Healthy

\* (a variant of lines 175-176 that stores the status after the callback)
CheckServerStatusThenCallsFirst(status, stored) ==
    IF status # stored
    THEN [statusMessage |-> IF CallbackThrows(status) THEN stored ELSE status,
          called |-> TRUE]
    ELSE [statusMessage |-> stored, called |-> FALSE]

\* (a variant without the comparison of line 174)
CheckServerStatusThenAlways(status, stored) ==
    [statusMessage |-> status, called |-> TRUE]

\* checkServerStatus lines 173-178: the .then reaction to the tick's status
CheckServerStatusThen(status, stored) ==
    IF status # stored
    THEN [statusMessage |-> status, called |-> TRUE]
    ELSE [statusMessage |-> stored, called |-> FALSE]

(***************************************************************************)
(* What a step did, for the properties: the callback invocation, the tick  *)
(* that completed, the application call that settled                       *)
(***************************************************************************)
Event(called, op, id, result, error, listed, status) ==
    [called |-> called,      \* callbackOnStatusChange was invoked, with
                             \* (status = null, status)
     op |-> op,              \* "tick", or the call that settled
     id |-> id,              \* the serverId argument of that call
     result |-> result,      \* "resolved" or "rejected"
     error |-> error,        \* the Error it rejected with; of a tick, the
                             \* exception caught on line 167
     listed |-> listed,      \* the listing it received holds a record of id:
                             \* "listed", "absent", or "" without a listing
     status |-> status,      \* the status the tick computed
     record |-> NoServer,    \* the record getServer returned (NoServer: null)
     disableCache |-> FALSE, \* the argument of the getServer that settled
     dropped |-> NoServer,   \* the record that getServer removed from the
                             \* cache on line 257, the refresh not being forced
     position |-> 0,         \* of a getServer or a tick settled by its
                             \* listing: its place among the calls then in
                             \* flight, which are in the order of their start
     emitted |-> FALSE,      \* the callback threw and the .catch of line 179
                             \* emitted the exception on 'error'
     flag |-> FALSE]         \* the first argument of the callback invoked
NoEvent == Event(FALSE, "none", 0, "", NoErr, "", Awaiting)
TickEvent(then, status, caught) ==
    [Event(then.called, "tick", 0, "", caught, "", status)
        EXCEPT !.emitted = then.called /\ CallbackThrows(status),
               !.flag = then.called /\ CallbackConnected(status)]
Resolved(op, id, listed) == Event(FALSE, op, id, "resolved", NoErr, listed, Awaiting)
Rejected(op, id, listed, error) == Event(FALSE, op, id, "rejected", error, listed, Awaiting)

GetServerEvent(settled, record, disableCache, dropped, position) ==
    [settled EXCEPT !.record = record, !.disableCache = disableCache,
                    !.dropped = dropped, !.position = position]

\* setServerId line 229, with the value of this._serverId it interpolates
ServerNotFoundError(sid) ==
    [status |-> 0, message |-> "Server ${serverId} not found on ISA!", id |-> sid]

(***************************************************************************)
(* The Session: application calls, the monitor's timers and ticks          *)
(*                                                                         *)
(* A call runs without interruption up to its next HTTP round trip, where  *)
(* it is suspended as an entry of inflight (in the order of sending), and  *)
(* from the reply to its next round trip or its end. The whole dispatch of *)
(* a request (sendRaw: one HTTP call, or three with the recovery, which    *)
(* writes no field of the Session) is one round trip here, and its reply   *)
(* is what sendRaw settles with. A tick that returns before its await      *)
(* leaves its .then reaction in pendingThen when the application started   *)
(* it (monitorServerStatus line 184): the application's synchronous code   *)
(* runs on before that reaction, timers and replies do not.                *)
(***************************************************************************)
Call(op, stage, zone, id) == [op |-> op, stage |-> stage, zone |-> zone, id |-> id]

Remove(seq, i) == SubSeq(seq, 1, i - 1) \o SubSeq(seq, i + 1, Len(seq))

\* the server records the listings of this specification are made of
ServerUp == ServerInfo(1, FALSE, 2, <<"A", "">>, <<"A", "">>)
ServerIsDown == ServerInfo(1, TRUE, 2, <<"A", "">>, <<"A", "">>)

Listings == { <<>>, <<ServerUp>>, <<ServerIsDown>> }

GATEWAY_ERROR == Returned(ErrorBody(500, OTHER_MESSAGE))
TIMEOUT == Thrown(Err(0, "Timeout awaiting 'request' for 1000ms"))
\* the reconnectToISA of the recovery (sendRaw line 628) threw
RECONNECT_FAILED == Thrown(ISA_NOT_SET)

\* what the dispatch of GET {zone}/server settles with
ListingReplies == { Returned(Payload(servers)) : servers \in Listings } \cup {GATEWAY_ERROR, TIMEOUT}
\* what the dispatch of POST connect/{ISAUrl} settles with
ConnectReplies == { Returned(Payload(<<>>)), GATEWAY_ERROR }

ServerIdInputs == {0, 1, 2}
InitServerIdInputs == {0, 1}
ZoneInputs == {""}
GatewayUrlInputs == {"gateway:3000/"}

\* init lines 66-67: trim a trailing slash, prefix http:// unless 'http' occurs
TrimTrailingSlash(url) == IF url = "gateway:3000/" THEN "gateway:3000" ELSE url
MatchesHttp(url) == url \in {"http://gateway:3000", "http://gateway:3000/"}
\* (a variant of line 67 that adds no scheme)
NormalizedGatewayUrlBare(url) == TrimTrailingSlash(url)

NormalizedGatewayUrl(url) ==
    IF MatchesHttp(TrimTrailingSlash(url))
    THEN TrimTrailingSlash(url)
    ELSE IF TrimTrailingSlash(url) = "gateway:3000" THEN "http://gateway:3000"
    ELSE "http://"

\* connectToISA line 89: an array as it is, a non-empty string as its one
\* element, anything else as no element
ISAUrlsArgument(isArray, value) == [isArray |-> isArray, value |-> value]
ISAUrlsInputs ==
    { ISAUrlsArgument(FALSE, <<"">>),
      ISAUrlsArgument(FALSE, <<"http://isa1">>) }
ISAUrlsOf(arg) ==
    IF arg.isArray THEN arg.value
    ELSE IF arg.value[1] # "" THEN <<arg.value[1]>>
    ELSE <<>>

unchangedDispatch == UNCHANGED dispatch

\* setMonitoredPorts (lines 510-512)
setMonitoredPorts(ports) ==
    /\ monitorPorts' = ports
    /\ lastEvent' = NoEvent
    /\ UNCHANGED <<gatewayUrl, initialized, ISAUrls, zoneId, serverId, monitorInterval,
                   statusMessage, cachedServer, connected,
                   timers, inflight, pendingThen, disposed>>
    /\ unchangedDispatch

\* (a variant of dispose without the clearInterval of line 106)
ClearIntervalNot(armed, handle) == armed

\* clearInterval (line 106): the timer of the handle fires no more; no timer
\* has the handle 0 (_monitorInterval undefined, line 105)
ClearInterval(armed, handle) ==
    IF handle # 0 THEN [armed EXCEPT ![handle] = FALSE] ELSE armed

\* (a variant of line 181 that does not arm the timer)
SetIntervalUnarmed(armed) == Append(armed, FALSE)

\* setInterval (line 181): one more timer, armed
SetInterval(armed) == Append(armed, TRUE)

\* (a variant of line 181 with a timer that fires once, as setTimeout)
TimerAfterFiringOnce(armed, t) == [armed EXCEPT ![t] = FALSE]

\* the timers after timer t fired: an interval timer (line 181) stays armed
TimerAfterFiring(armed, t) == armed

\* dispose (lines 104-108): clearInterval of the handle in _monitorInterval
dispose ==
    /\ timers' = ClearInterval(timers, monitorInterval)
    /\ disposed' = TRUE
    /\ lastEvent' = Event(FALSE, "dispose", 0, "", NoErr, "", Awaiting)
    /\ UNCHANGED <<fields, inflight, pendingThen>>
    /\ unchangedDispatch

\* monitorServerStatus (lines 116-185): setInterval, then checkServerStatus
\* run right away, up to the await of getServerStatus (line 125) or its return
monitorServerStatus ==
    /\ Len(timers) < MaxMonitors
    /\ timers' = SetInterval(timers)
    /\ monitorInterval' = Len(timers) + 1
    /\ disposed' = FALSE
    /\ connected' = FALSE
    /\ lastEvent' = NoEvent
    /\ IF EarlyStatus(gatewayUrl, serverId) # Awaiting
       THEN /\ pendingThen' = Append(pendingThen, EarlyStatus(gatewayUrl, serverId))
            /\ UNCHANGED <<cachedServer, inflight>>
       ELSE /\ Len(inflight) < MaxInFlight
            /\ cachedServer' = NoServer
            /\ inflight' = Append(inflight, Call("tick", "", "", 0))
            /\ UNCHANGED pendingThen
    /\ UNCHANGED <<gatewayUrl, initialized, ISAUrls, zoneId, serverId,
                   statusMessage, monitorPorts>>
    /\ unchangedDispatch

\* the .then reaction (lines 173-178) of a tick that returned before its await
RunThen ==
    /\ pendingThen # <<>>
    /\ LET then == CheckServerStatusThen(Head(pendingThen), statusMessage)
       IN  /\ statusMessage' = then.statusMessage
           /\ lastEvent' = TickEvent(then, Head(pendingThen), NoErr)
    /\ pendingThen' = Tail(pendingThen)
    /\ UNCHANGED <<gatewayUrl, initialized, ISAUrls, zoneId, serverId, monitorInterval,
                   cachedServer, monitorPorts, connected, timers, inflight, disposed>>
    /\ unchangedDispatch

\* an interval timer fires (lines 181-183): checkServerStatus up to the await
\* of line 125, or to the end of its .then reaction when it returns before
TimerTick(t) ==
    /\ t \in 1..Len(timers) /\ timers[t]
    /\ pendingThen = <<>>
    /\ connected' = FALSE
    /\ IF EarlyStatus(gatewayUrl, serverId) # Awaiting
       THEN LET status == EarlyStatus(gatewayUrl, serverId)
                then == CheckServerStatusThen(status, statusMessage)
            IN  /\ statusMessage' = then.statusMessage
                /\ lastEvent' = TickEvent(then, status, NoErr)
                /\ UNCHANGED <<cachedServer, inflight>>
       ELSE /\ Len(inflight) < MaxInFlight
            /\ cachedServer' = NoServer
            /\ inflight' = Append(inflight, Call("tick", "", "", 0))
            /\ lastEvent' = NoEvent
            /\ UNCHANGED statusMessage
    /\ timers' = TimerAfterFiring(timers, t)
    /\ UNCHANGED <<gatewayUrl, initialized, ISAUrls, zoneId, serverId, monitorInterval,
                   monitorPorts, pendingThen, disposed>>
    /\ unchangedDispatch

\* (a variant of line 269 that leaves the cache alone when no record matches)
CacheAfterListingUnlessAbsent(cached, reply, sid) ==
    IF EnsureGoodResponse(reply).kind = "throw" THEN cached
    ELSE IF FindServer(EnsureGoodResponse(reply).body.servers, sid, 1) = NoServer THEN cached
    ELSE FindServer(EnsureGoodResponse(reply).body.servers, sid, 1)

\* (a variant of line 269 that keeps a record already in the cache)
CacheAfterListingKeepsFirst(cached, reply, sid) ==
    IF EnsureGoodResponse(reply).kind = "throw" \/ cached # NoServer THEN cached
    ELSE FindServer(EnsureGoodResponse(reply).body.servers, sid, 1)

\* the record getServer stores on line 269 (the cache is left alone when
\* getServers throws)
CacheAfterListing(cached, reply, sid) ==
    IF EnsureGoodResponse(reply).kind = "throw" THEN cached
    ELSE FindServer(EnsureGoodResponse(reply).body.servers, sid, 1)

\* the listing requested by a tick arrives: getServer lines 264-270,
\* getServerStatus lines 127-169, then the .then reaction (lines 173-178)
TickReply(i, reply) ==
    /\ pendingThen = <<>>
    /\ i \in 1..Len(inflight) /\ inflight[i].op = "tick"
    /\ LET good == EnsureGoodResponse(reply)
           server == FindServer(good.body.servers, serverId, 1)
           status == IF good.kind = "throw"
                     THEN MonitoringError(good.error)
                     ELSE StatusOfServer(server, serverId, monitorPorts, initialized)
           then == CheckServerStatusThen(status, statusMessage)
       IN  /\ cachedServer' = CacheAfterListing(cachedServer, reply, serverId)
           /\ connected' = IF good.kind # "throw" /\ ReachesPortCheck(server)
                           THEN TRUE ELSE connected
           /\ statusMessage' = then.statusMessage
           /\ lastEvent' = [TickEvent(then, status,
                                       IF good.kind = "throw" THEN good.error ELSE NoErr)
                               EXCEPT !.position = i]
    /\ inflight' = Remove(inflight, i)
    /\ UNCHANGED <<gatewayUrl, initialized, ISAUrls, zoneId, serverId, monitorInterval,
                   monitorPorts, timers, pendingThen, disposed>>
    /\ unchangedDispatch

\* setServerId (lines 222-231) up to the await in getServer(true) (line 264)
setServerId(id) ==
    /\ serverId' = id
    /\ IF id # 0
       THEN /\ Len(inflight) < MaxInFlight
            /\ cachedServer' = NoServer
            /\ inflight' = Append(inflight, Call("setServerId", "", "", id))
            /\ lastEvent' = NoEvent
       ELSE /\ lastEvent' = Resolved("setServerId", id, "")
            /\ UNCHANGED <<cachedServer, inflight>>
    /\ UNCHANGED <<gatewayUrl, initialized, ISAUrls, zoneId, monitorInterval,
                   statusMessage, monitorPorts, connected,
                   timers, pendingThen, disposed>>
    /\ unchangedDispatch

\* (a variant without the throw of line 229)
SetServerIdSettlesUnchecked(op, call, reply, sid) ==
    IF EnsureGoodResponse(reply).kind = "throw"
    THEN Rejected(op, call.id, "", EnsureGoodResponse(reply).error)
    ELSE Resolved(op, call.id,
                  IF FindServer(reply.body.servers, call.id, 1) # NoServer
                  THEN "listed" ELSE "absent")

\* what setServerId settles with once its listing arrives: getServer lines
\* 264-270 (not reached when getServers throws), then line 229
SetServerIdSettles(op, call, reply, sid) ==
    LET good == EnsureGoodResponse(reply)
        server == FindServer(good.body.servers, sid, 1)
        listed == IF good.kind = "throw" THEN ""
                  ELSE IF FindServer(good.body.servers, call.id, 1) # NoServer THEN "listed"
                  ELSE "absent"
    IN  IF good.kind = "throw" THEN Rejected(op, call.id, listed, good.error)
        ELSE IF server = NoServer THEN Rejected(op, call.id, listed, ServerNotFoundError(sid))
        ELSE Resolved(op, call.id, listed)

\* the listing requested by setServerId arrives
setServerIdReply(i, reply) ==
    /\ pendingThen = <<>>
    /\ i \in 1..Len(inflight) /\ inflight[i].op = "setServerId"
    /\ cachedServer' = CacheAfterListing(cachedServer, reply, serverId)
    /\ lastEvent' = SetServerIdSettles("setServerId", inflight[i], reply, serverId)
    /\ inflight' = Remove(inflight, i)
    /\ UNCHANGED <<gatewayUrl, initialized, ISAUrls, zoneId, serverId, monitorInterval,
                   statusMessage, monitorPorts, connected,
                   timers, pendingThen, disposed>>
    /\ unchangedDispatch

\* (a variant of line 256 without the test of disableCache)
CacheAtCallUnforced(disableCache, cached, sid) ==
    IF cached.ident # sid THEN NoServer ELSE cached

\* (a variant of line 256 without the comparison of the identifiers)
CacheAtCallOfAnyId(disableCache, cached, sid) ==
    IF disableCache THEN NoServer ELSE cached

\* getServer lines 256-258: the cache once the call has invalidated it or not
CacheAtCall(disableCache, cached, sid) ==
    IF disableCache \/ cached.ident # sid THEN NoServer ELSE cached

GET_SERVER_ID_NOT_SET == Err(0, "QuantelGatewayClient.serverId not set")

\* getServer (lines 254-271) called by the application, up to its return of
\* the cached record (line 260), its throw (line 262) or its await (line 264)
getServer(disableCache) ==
    LET cached == CacheAtCall(disableCache, cachedServer, serverId)
        dropped == IF ~disableCache /\ cached = NoServer THEN cachedServer ELSE NoServer
    IN  /\ cachedServer' = cached
        /\ IF cached # NoServer
           THEN /\ lastEvent' = GetServerEvent(Resolved("getServer", 0, ""),
                                               cached, disableCache, dropped, 0)
                /\ UNCHANGED inflight
           ELSE IF serverId = 0
           THEN /\ lastEvent' = GetServerEvent(Rejected("getServer", 0, "", GET_SERVER_ID_NOT_SET),
                                               NoServer, disableCache, dropped, 0)
                /\ UNCHANGED inflight
           ELSE /\ Len(inflight) < MaxInFlight
                /\ inflight' = Append(inflight,
                                      Call("getServer", IF disableCache THEN "forced" ELSE "unforced", "", 0))
                /\ lastEvent' = NoEvent
        /\ UNCHANGED <<gatewayUrl, initialized, ISAUrls, zoneId, serverId, monitorInterval,
                       statusMessage, monitorPorts, connected,
                       timers, pendingThen, disposed>>
        /\ unchangedDispatch

\* the listing holds a record of the identifier
Lists(servers, sid) == \E k \in 1..Len(servers) : servers[k].ident = sid

\* what getServer settles with once its listing arrives (lines 264-270)
GetServerSettles(call, reply, sid, position) ==
    LET good == EnsureGoodResponse(reply)
    IN  IF good.kind = "throw"
        THEN GetServerEvent(Rejected("getServer", 0, "", good.error),
                            NoServer, call.stage = "forced", NoServer, position)
        ELSE GetServerEvent(Resolved("getServer", 0,
                                     IF Lists(good.body.servers, sid) THEN "listed" ELSE "absent"),
                            FindServer(good.body.servers, sid, 1),
                            call.stage = "forced", NoServer, position)

\* the listing requested by getServer arrives
getServerReply(i, reply) ==
    /\ pendingThen = <<>>
    /\ i \in 1..Len(inflight) /\ inflight[i].op = "getServer"
    /\ cachedServer' = CacheAfterListing(cachedServer, reply, serverId)
    /\ lastEvent' = GetServerSettles(inflight[i], reply, serverId, i)
    /\ inflight' = Remove(inflight, i)
    /\ UNCHANGED <<gatewayUrl, initialized, ISAUrls, zoneId, serverId, monitorInterval,
                   statusMessage, monitorPorts, connected,
                   timers, pendingThen, disposed>>
    /\ unchangedDispatch

\* init (lines 58-81) up to the await in reconnectToISA (line 96), or to the
\* throw of _formattedISAUrl on an empty endpoint list
init(url, isa, zone, id) ==
    /\ initialized' = FALSE
    /\ cachedServer' = NoServer
    /\ gatewayUrl' = NormalizedGatewayUrl(url)
    /\ ISAUrls' = ISAUrlsOf(isa)
    /\ IF ISAUrlsOf(isa) = <<>>
       THEN /\ lastEvent' = Rejected("init", id, "", ISA_NOT_SET)
            /\ UNCHANGED inflight
       ELSE /\ Len(inflight) < MaxInFlight
            /\ inflight' = Append(inflight, Call("init", "connect", zone, id))
            /\ lastEvent' = NoEvent
    /\ UNCHANGED <<zoneId, serverId, monitorInterval, statusMessage, monitorPorts,
                   connected, timers, pendingThen, disposed>>
    /\ unchangedDispatch

\* (a variant of line 71 without the default)
ZoneAsGiven(zone) == zone

\* init line 71: zoneId || 'default'
ZoneOrDefault(zone) == IF zone # "" THEN zone ELSE "default"

\* the reply to init's connect request arrives: lines 70-78, up to the await
\* in getServer(true), or to line 80 when no serverId is given
initConnectReply(i, reply) ==
    /\ pendingThen = <<>>
    /\ i \in 1..Len(inflight)
    /\ inflight[i].op = "init" /\ inflight[i].stage = "connect"
    /\ LET call == inflight[i]
           good == EnsureGoodResponse(reply)
       IN  IF good.kind = "throw"
           THEN /\ lastEvent' = Rejected("init", call.id, "", good.error)
                /\ inflight' = Remove(inflight, i)
                /\ UNCHANGED <<zoneId, serverId, cachedServer, initialized>>
           ELSE /\ zoneId' = ZoneOrDefault(call.zone)
                /\ serverId' = call.id
                /\ IF call.id # 0
                   THEN /\ cachedServer' = NoServer
                        /\ inflight' = [inflight EXCEPT ![i].stage = "server"]
                        /\ lastEvent' = NoEvent
                        /\ UNCHANGED initialized
                   ELSE /\ initialized' = TRUE
                        /\ inflight' = Remove(inflight, i)
                        /\ lastEvent' = Resolved("init", call.id, "")
                        /\ UNCHANGED cachedServer
    /\ UNCHANGED <<gatewayUrl, ISAUrls, monitorInterval, statusMessage, monitorPorts,
                   connected, timers, pendingThen, disposed>>
    /\ unchangedDispatch

\* the listing requested by init's setServerId arrives: lines 228-229, 80
initServerReply(i, reply) ==
    /\ pendingThen = <<>>
    /\ i \in 1..Len(inflight)
    /\ inflight[i].op = "init" /\ inflight[i].stage = "server"
    /\ LET settled == SetServerIdSettles("init", inflight[i], reply, serverId)
       IN  /\ cachedServer' = CacheAfterListing(cachedServer, reply, serverId)
           /\ lastEvent' = settled
           /\ initialized' = IF settled.result = "resolved" THEN TRUE ELSE initialized
    /\ inflight' = Remove(inflight, i)
    /\ UNCHANGED <<gatewayUrl, ISAUrls, zoneId, serverId, monitorInterval,
                   statusMessage, monitorPorts, connected,
                   timers, pendingThen, disposed>>
    /\ unchangedDispatch

\* the Session after construction (lines 30-40)
Init ==
    /\ gatewayUrl = "" /\ initialized = FALSE
    /\ ISAUrls = <<>>
    /\ zoneId = "" /\ serverId = 0 /\ monitorInterval = 0
    /\ statusMessage = Initializing /\ cachedServer = NoServer
    /\ monitorPorts = <<>> /\ connected = FALSE
    /\ timers = <<>> /\ inflight = <<>> /\ pendingThen = <<>>
    /\ disposed = FALSE /\ lastEvent = NoEvent
    /\ frames = <<>> /\ http = <<>> /\ reconnectCalls = <<>> /\ outcome = Pending

Next ==
    \/ dispose
    \/ monitorServerStatus
    \/ RunThen
    \/ \E t \in 1..MaxMonitors : TimerTick(t)
    \/ \E i \in 1..MaxInFlight, reply \in ListingReplies : TickReply(i, reply)
    \/ \E id \in ServerIdInputs : setServerId(id)
    \/ \E i \in 1..MaxInFlight, reply \in ListingReplies : setServerIdReply(i, reply)
    \/ \E url \in GatewayUrlInputs, isa \in ISAUrlsInputs, zone \in ZoneInputs,
          id \in InitServerIdInputs : init(url, isa, zone, id)
    \/ \E i \in 1..MaxInFlight, reply \in ConnectReplies : initConnectReply(i, reply)
    \/ \E i \in 1..MaxInFlight, reply \in ListingReplies : initServerReply(i, reply)

Spec == Init /\ [][Next]_vars

(***************************************************************************)
(* SpecCache: the server cache of a configured Session under the calls     *)
(* that refresh it: getServer, setServerId, init and the monitor's ticks   *)
(***************************************************************************)
CacheServerIdInputs == {0, 1}

InitCache ==
    /\ gatewayUrl = "http://gateway:3000" /\ initialized = TRUE
    /\ ISAUrls = <<"http://isa1">>
    /\ zoneId = "default" /\ serverId \in CacheServerIdInputs
    /\ monitorInterval = 1 /\ timers = <<TRUE>>
    /\ statusMessage = Initializing /\ cachedServer = NoServer
    /\ monitorPorts = <<>> /\ connected = FALSE
    /\ inflight = <<>> /\ pendingThen = <<>>
    /\ disposed = FALSE /\ lastEvent = NoEvent
    /\ frames = <<>> /\ http = <<>> /\ reconnectCalls = <<>> /\ outcome = Pending

NextCache ==
    \/ \E disableCache \in BOOLEAN : getServer(disableCache)
    \/ \E i \in 1..MaxInFlight, reply \in ListingReplies : getServerReply(i, reply)
    \/ \E id \in CacheServerIdInputs : setServerId(id)
    \/ \E i \in 1..MaxInFlight, reply \in ListingReplies : setServerIdReply(i, reply)
    \/ TimerTick(1)
    \/ \E i \in 1..MaxInFlight, reply \in ListingReplies : TickReply(i, reply)
    \/ \E url \in GatewayUrlInputs, isa \in ISAUrlsInputs, zone \in ZoneInputs,
          id \in InitServerIdInputs : init(url, isa, zone, id)
    \/ \E i \in 1..MaxInFlight, reply \in ConnectReplies : initConnectReply(i, reply)
    \/ \E i \in 1..MaxInFlight, reply \in ListingReplies : initServerReply(i, reply)

SpecCache == InitCache /\ [][NextCache]_vars

(***************************************************************************)
(* SpecMonitors: a configured Session on which monitorServerStatus has     *)
(* been called twice, the first tick of each call in flight                *)
(***************************************************************************)
InitMonitors ==
    /\ gatewayUrl = "http://gateway:3000" /\ initialized = TRUE
    /\ ISAUrls = <<"http://isa1">>
    /\ zoneId = "default" /\ serverId = 1
    /\ timers = SetInterval(SetInterval(<<>>)) /\ monitorInterval = Len(timers)
    /\ statusMessage = Initializing /\ cachedServer = NoServer
    /\ monitorPorts = <<>> /\ connected = FALSE
    /\ inflight = <<Call("tick", "", "", 0), Call("tick", "", "", 0)>>
    /\ pendingThen = <<>>
    /\ disposed = FALSE /\ lastEvent = NoEvent
    /\ frames = <<>> /\ http = <<>> /\ reconnectCalls = <<>> /\ outcome = Pending

NextMonitors ==
    \/ dispose
    \/ \E t \in DOMAIN timers : TimerTick(t)
    \/ \E i \in DOMAIN inflight, reply \in ListingReplies : TickReply(i, reply)

SpecMonitors == InitMonitors /\ [][NextMonitors]_vars

(***************************************************************************)
(* SpecTick: the first poll tick of a monitor: in flight on a configured   *)
(* Session (init has resolved, or was rejected after the server listing),  *)
(* or returned before its await on a Session without gateway address or    *)
(* server identifier;                                                      *)
(* over every monitored-port declaration and every server record of the    *)
(* bounded space; the declaration may still be replaced before the listing *)
(* arrives.                                                                *)
(***************************************************************************)
SeqsUpTo(S, n) == UNION { [1..k -> S] : k \in 0..n }

\* port names a server record holds: an empty slot, and the ports A and B
ServerPortNames == {"", "A", "B"}
\* port names the application declares: B, and C which no server holds
ServerSpace ==
    { ServerInfo(1, FALSE, numChannels, portNames, chanPorts) :
        numChannels \in 0..MaxChannels,
        portNames \in SeqsUpTo(ServerPortNames, MaxChannels),
        chanPorts \in SeqsUpTo(ServerPortNames, MaxChannels) }
    \cup {ServerIsDown}

TickReplies ==
    { Returned(Payload(<<server>>)) : server \in ServerSpace }
    \cup { Returned(Payload(<<>>)), GATEWAY_ERROR, TIMEOUT, RECONNECT_FAILED }

\* the channel lists declared: every set of channel indices, ascending
ChannelLists ==
    { channels \in SeqsUpTo(0..(MaxChannels - 1), MaxChannels) :
        \A i, j \in 1..Len(channels) : i < j => channels[i] < channels[j] }

MonitorPortsSpace ==
    {<<>>}
    \cup { <<MonitorPort(id, channels)>> : id \in {"B", "C"}, channels \in ChannelLists }
    \cup { <<MonitorPort("B", b), MonitorPort("C", c)>> : b \in ChannelLists, c \in ChannelLists }

InitTick ==
    /\ gatewayUrl \in {"", "http://gateway:3000"} /\ initialized \in BOOLEAN
    /\ ISAUrls = <<"http://isa1">>
    /\ zoneId = "default" /\ serverId \in {0, 1} /\ monitorInterval = 1
    /\ statusMessage = Initializing /\ cachedServer = NoServer
    /\ monitorPorts \in MonitorPortsSpace /\ connected = FALSE
    /\ timers = <<TRUE>>
    /\ IF EarlyStatus(gatewayUrl, serverId) # Awaiting
       THEN inflight = <<>> /\ pendingThen = <<EarlyStatus(gatewayUrl, serverId)>>
       ELSE inflight = <<Call("tick", "", "", 0)>> /\ pendingThen = <<>>
    /\ disposed = FALSE /\ lastEvent = NoEvent
    /\ frames = <<>> /\ http = <<>> /\ reconnectCalls = <<>> /\ outcome = Pending

NextTick ==
    \/ inflight # <<>> /\ \E ports \in MonitorPortsSpace : setMonitoredPorts(ports)
    \/ inflight # <<>> /\ \E reply \in TickReplies : TickReply(1, reply)
    \/ RunThen

SpecTick == InitTick /\ [][NextTick]_vars

(***************************************************************************)
(* The dispatch path: sendRaw, sendRawInner, reconnectToISA                *)
(*                                                                         *)
(* frames is the chain of sendRaw activations of one dispatched request:   *)
(* frames[1] is the request the caller dispatched, every frame above it a  *)
(* connect request sent by the reconnectToISA call of the frame beneath.   *)
(* pc: "first" (line 621 awaits sendRawInner), "reconnect" (line 628       *)
(* awaits reconnectToISA), "retry" (line 630, sendRawInner again).         *)
(* http logs every HTTP request of the dispatch with its reply,            *)
(* reconnectCalls the depth of the frame that made each reconnectToISA     *)
(* call.                                                                   *)
(***************************************************************************)
\* isa: the endpoint list in the resource of a connect request (line 97)
Frame(req, pc, isa) == [req |-> req, pc |-> pc, isa |-> isa]

HttpCall(req, depth, attempt, isa) ==
    [req |-> req, depth |-> depth, attempt |-> attempt, isa |-> isa, reply |-> Pending]

DispatchState(f, h, r, o) == [frames |-> f, http |-> h, reconnectCalls |-> r, outcome |-> o]

\* (a variant without the test of the status on line 625)
IsProvideISAOfAnyStatus(responseBody) ==
    /\ IsAnErrorResponse(responseBody)
    /\ MatchesProvideISA(responseBody.message)

\* sendRaw lines 623-627: the gateway's signal that it lost its ISA connection
IsProvideISA(responseBody) ==
    /\ IsAnErrorResponse(responseBody)
    /\ responseBody.status = 502
    /\ MatchesProvideISA(responseBody.message)

\* (a variant in which sendRaw catches a failed reconnect and tries again)
SendRawSettlesCatching(d, settled) ==
    IF Len(d.frames) = 1
    THEN [d EXCEPT !.frames = <<>>,
                   !.outcome = IF d.frames[1].req = "connect"
                               THEN EnsureGoodResponse(settled)
                               ELSE settled]
    ELSE LET below == SubSeq(d.frames, 1, Len(d.frames) - 1)
             n == Len(below)
         IN  [d EXCEPT
                 !.frames = [below EXCEPT ![n].pc = "retry"],
                 !.http = Append(@, HttpCall(below[n].req, n, "retry", below[n].isa))]

\* The sendRaw of the top frame settles. The bottom frame's result is the
\* dispatch's outcome (through the _ensureGoodResponse of reconnectToISA when
\* the application called connectToISA or reconnectToISA). A connect frame's result goes through the
\* _ensureGoodResponse of reconnectToISA (lines 96-98) to the sendRaw beneath,
\* which awaits it on line 628: a throw rejects that sendRaw too, otherwise it
\* sends its own request again (line 630).
RECURSIVE SendRawSettles(_, _)
SendRawSettles(d, settled) ==
    IF Len(d.frames) = 1
    THEN [d EXCEPT !.frames = <<>>,
                   !.outcome = IF d.frames[1].req = "connect"
                               THEN EnsureGoodResponse(settled)
                               ELSE settled]
    ELSE LET good == EnsureGoodResponse(settled)
             below == SubSeq(d.frames, 1, Len(d.frames) - 1)
             n == Len(below)
         IN  IF good.kind = "throw"
             THEN SendRawSettles([d EXCEPT !.frames = below], good)
             ELSE [d EXCEPT
                     !.frames = [below EXCEPT ![n].pc = "retry"],
                     !.http = Append(@, HttpCall(below[n].req, n, "retry",
                                                 below[n].isa))]

\* (a variant that formats an empty list instead of throwing)
ReconnectToISAUnchecked(d, urls) ==
    LET n == Len(d.frames)
        called == [d EXCEPT !.reconnectCalls = Append(@, n),
                            !.frames[n].pc = "reconnect"]
    IN  [called EXCEPT
            !.frames = Append(@, Frame("connect", "first", FormattedISAUrl(urls))),
            !.http = Append(@, HttpCall("connect", n + 1, "first",
                                        FormattedISAUrl(urls)))]

\* reconnectToISA (lines 93-99), called by the top frame: _formattedISAUrl
\* throws on an empty list, otherwise the connect request goes through sendRaw
ReconnectToISA(d, urls) ==
    LET n == Len(d.frames)
        called == [d EXCEPT !.reconnectCalls = Append(@, n),
                            !.frames[n].pc = "reconnect"]
    IN  IF urls = <<>>
        THEN SendRawSettles(called, Thrown(ISA_NOT_SET))
        ELSE [called EXCEPT
                !.frames = Append(@, Frame("connect", "first", FormattedISAUrl(urls))),
                !.http = Append(@, HttpCall("connect", n + 1, "first",
                                            FormattedISAUrl(urls)))]

\* sendRaw lines 621-633: the reply to the first sendRawInner
SendRawOnFirst(d, urls, reply) ==
    IF reply.kind = "throw" THEN SendRawSettles(d, reply)
    ELSE IF IsProvideISA(reply.body)
         THEN ReconnectToISA(d, urls)
         ELSE SendRawSettles(d, reply)

\* (a variant that examines the reply of the retry like the first reply)
SendRawOnRetryChecked(d, urls, reply) ==
    IF reply.kind = "throw" THEN SendRawSettles(d, reply)
    ELSE IF IsProvideISA(reply.body)
         THEN ReconnectToISA(d, urls)
         ELSE SendRawSettles(d, reply)

\* sendRaw line 630: the reply to the second sendRawInner is returned as it is
SendRawOnRetry(d, urls, reply) == SendRawSettles(d, reply)

\* What the gateway (or the transport) answers to one HTTP request
HttpReplies ==
    { Returned(Payload(<<>>)),
      Returned(ErrorBody(502, ISA_SIGNAL)),
      Returned(ErrorBody(502, ISA_SIGNAL_UPPER)),
      Returned(ErrorBody(502, OTHER_MESSAGE)),
      Returned(ErrorBody(500, ISA_SIGNAL)),
      Returned(ErrorBody(404, NOT_FOUND_REQUEST)),
      Thrown(Err(0, "Timeout awaiting 'request' for 1000ms")) }

ISAUrlLists == { <<>>, <<"http://isa1">>, <<"http://isa1", "https://isa2">> }

DispatchIdle == frames = <<>> /\ http = <<>> /\ outcome = Pending /\ reconnectCalls = <<>>
DispatchDone == frames = <<>> /\ outcome # Pending

\* A caller dispatches a request: sendRaw line 621
sendRaw ==
    /\ DispatchIdle
    /\ frames' = <<Frame("orig", "first", <<>>)>>
    /\ http' = <<HttpCall("orig", 1, "first", <<>>)>>
    /\ UNCHANGED <<reconnectCalls, outcome, fields, runtime>>

\* reconnectToISA (lines 93-99) called by the application, directly or
\* through connectToISA: logged in reconnectCalls as made by depth 0
reconnectToISAWith(urls) ==
    /\ DispatchIdle
    /\ reconnectCalls' = <<0>>
    /\ IF urls = <<>>
       THEN /\ outcome' = Thrown(ISA_NOT_SET)
            /\ UNCHANGED <<frames, http>>
       ELSE /\ frames' = <<Frame("connect", "first", FormattedISAUrl(urls))>>
            /\ http' = <<HttpCall("connect", 1, "first", FormattedISAUrl(urls))>>
            /\ UNCHANGED outcome

reconnectToISA ==
    /\ reconnectToISAWith(ISAUrls)
    /\ UNCHANGED <<fields, runtime>>

\* connectToISA (lines 88-92)
connectToISA(arg) ==
    /\ ISAUrls' = ISAUrlsOf(arg)
    /\ reconnectToISAWith(ISAUrlsOf(arg))
    /\ UNCHANGED <<gatewayUrl, initialized, zoneId, serverId, monitorInterval,
                   statusMessage, cachedServer, monitorPorts, connected, runtime>>

ConnectArguments ==
    ISAUrlsInputs \cup { ISAUrlsArgument(TRUE, <<>>),
                         ISAUrlsArgument(TRUE, <<"http://isa1", "https://isa2">>) }

\* The HTTP request in flight (the last one sent) is answered: sendRawInner
\* (lines 636-664) resolves with the body or rejects, and sendRaw continues
HttpReply(reply) ==
    /\ frames # <<>>
    /\ LET n == Len(frames)
           answered == [http EXCEPT ![Len(http)].reply = reply]
           d == DispatchState(frames, answered, reconnectCalls, outcome)
           next == IF frames[n].pc = "first"
                   THEN SendRawOnFirst(d, ISAUrls, reply)
                   ELSE SendRawOnRetry(d, ISAUrls, reply)
       IN  /\ frames[n].pc \in {"first", "retry"}
           /\ Len(next.frames) <= MaxDepth
           /\ frames' = next.frames
           /\ http' = next.http
           /\ reconnectCalls' = next.reconnectCalls
           /\ outcome' = next.outcome
    /\ UNCHANGED <<fields, runtime>>

\* The caller has its result; the next request may find another endpoint list
\* configured (connectToISA line 89)
NextRequest(urls) ==
    /\ DispatchDone
    /\ frames' = <<>> /\ http' = <<>> /\ reconnectCalls' = <<>> /\ outcome' = Pending
    /\ ISAUrls' = urls
    /\ UNCHANGED <<gatewayUrl, initialized, zoneId, serverId, monitorInterval,
                   statusMessage, cachedServer, monitorPorts, connected, runtime>>

InitDispatch ==
    /\ gatewayUrl = "http://gateway" /\ initialized = TRUE
    /\ ISAUrls \in ISAUrlLists
    /\ zoneId = "default" /\ serverId = 1 /\ monitorInterval = 0
    /\ statusMessage = Initializing /\ cachedServer = NoServer
    /\ monitorPorts = <<>> /\ connected = FALSE
    /\ timers = <<>> /\ inflight = <<>> /\ pendingThen = <<>>
    /\ disposed = FALSE /\ lastEvent = NoEvent
    /\ frames = <<>> /\ http = <<>> /\ reconnectCalls = <<>> /\ outcome = Pending

NextDispatch ==
    \/ sendRaw
    \/ reconnectToISA
    \/ \E arg \in ConnectArguments : connectToISA(arg)
    \/ \E reply \in HttpReplies : HttpReply(reply)
    \/ \E urls \in ISAUrlLists : NextRequest(urls)

SpecDispatch == InitDispatch /\ [][NextDispatch]_vars

(***************************************************************************)
(* SpecCall: typed operations of an application on a configured Session,   *)
(* one at a time: sendServer / sendZone / sendBase, the dispatch of the    *)
(* request by sendRaw (the actions of the dispatch path), and what the     *)
(* operation makes of the result.                                          *)
(***************************************************************************)
ServerOperations ==
    {"getPort", "createPort", "releasePort", "resetPort", "portPlay", "portStop",
     "portHardJump", "portPrepareJump", "portTriggerJump", "portClearFragments"}
ZoneOperations == {"getClip", "getCopyRemaining"}
Operations == ServerOperations \cup ZoneOperations

\* the operations that test the flag of the payload, with the name each puts
\* in its Error (lines 416-417, 432-433, 447-448, 463-464, 475-476, 502)
FlagOperations ==
    {"portPlay", "portStop", "portHardJump", "portPrepareJump", "portTriggerJump",
     "portClearFragments"}
FlagErrorText(op) ==
    CASE op = "portPlay" -> "Quantel trigger start: Server returned success=${response.success}"
      [] op = "portStop" -> "Quantel trigger stop: Server returned success=${response.success}"
      [] op = "portHardJump" -> "Quantel hard jump: Server returned success=${response.success}"
      [] op = "portPrepareJump" -> "Quantel prepare jump: Server returned success=${response.success}"
      [] op = "portTriggerJump" -> "Quantel trigger jump: Server returned success=${response.success}"
      [] op = "portClearFragments" -> "Quantel clear port: Server returned wiped=${response.wiped}"
      [] OTHER -> ""

\* the operations that catch the error of the call (lines 281-284, 325-328)
CatchingOperations == {"getPort", "getClip"}

SERVER_ID_NOT_SET == Err(0, "QuantelClient.serverId not set")
NOT_INITIALIZED == Err(0, "Quantel not initialized yet")
HTTP_404_NO_BODY == Err(0, "Response code 404 (Not Found)")

\* e.message.match(/404/): the text of a gateway error is
\* `${status} ${message}\n${stack}`, that of another Error its message
Matches404(e) ==
    \/ e.status = 404
    \/ e.message \in {MENTIONS_404, HTTP_404_NO_BODY.message}

\* (e.message || '').match('Not found. Request'), on the messages used
MatchesNotFoundRequest(e) == e.message = NOT_FOUND_REQUEST

\* _isNotFoundAThing (lines 722-727)
IsNotFoundAThing(e) ==
    IF Matches404(e) THEN ~MatchesNotFoundRequest(e) ELSE FALSE

\* (a variant without the test of sendBase, lines 607-609)
ConfigurationErrorOfServerOnly(op, sid, isInitialized) ==
    IF op \in ServerOperations /\ sid = 0 THEN SERVER_ID_NOT_SET ELSE NoErr

\* sendServer line 582, sendBase lines 607-609: the Error thrown before the
\* request is dispatched, NoErr when it is dispatched
ConfigurationError(op, sid, isInitialized) ==
    IF op \in ServerOperations /\ sid = 0 THEN SERVER_ID_NOT_SET
    ELSE IF ~isInitialized THEN NOT_INITIALIZED
    ELSE NoErr

ResolvedNull(op, id) == Event(FALSE, op, id, "null", NoErr, "", Awaiting)

\* (a variant in which no operation tests the flag of its payload)
OperationSettlesWithoutFlagTest(op, id, settled) ==
    LET good == EnsureGoodResponse(settled)
    IN  IF good.kind = "throw"
        THEN IF op \in CatchingOperations /\ IsNotFoundAThing(good.error)
             THEN ResolvedNull(op, id)
             ELSE Rejected(op, id, "", good.error)
        ELSE Resolved(op, id, "")

\* What an operation settles with, given what sendRaw settled with (or the
\* configuration error thrown): _ensureGoodResponse in sendBase (line 610),
\* then the operation's own catch clause or test of the payload's flag
OperationSettles(op, id, settled) ==
    LET good == EnsureGoodResponse(settled)
    IN  IF good.kind = "throw"
        THEN IF op \in CatchingOperations /\ IsNotFoundAThing(good.error)
             THEN ResolvedNull(op, id)
             ELSE Rejected(op, id, "", good.error)
        ELSE IF op \in FlagOperations /\ good.body.flag # "true"
             THEN Rejected(op, id, "", Err(0, FlagErrorText(op)))
             ELSE Resolved(op, id, "")

\* an operation is called: sendServer / sendZone / sendBase up to the await
\* of sendRawInner (line 621), or to the rejection of a configuration error
Operation(op) ==
    /\ inflight = <<>> /\ (DispatchIdle \/ DispatchDone)
    /\ reconnectCalls' = <<>> /\ outcome' = Pending
    /\ IF ConfigurationError(op, serverId, initialized) # NoErr
       THEN /\ lastEvent' = OperationSettles(op, serverId,
                               Thrown(ConfigurationError(op, serverId, initialized)))
            /\ frames' = <<>> /\ http' = <<>>
            /\ UNCHANGED inflight
       ELSE /\ inflight' = <<Call(op, "", zoneId, serverId)>>
            /\ frames' = <<Frame("orig", "first", <<>>)>>
            /\ http' = <<HttpCall("orig", 1, "first", <<>>)>>
            /\ lastEvent' = NoEvent
    /\ UNCHANGED <<fields, timers, pendingThen, disposed>>

\* the sendRaw of the operation has settled: the operation settles
OperationSettled ==
    /\ inflight # <<>> /\ inflight[1].op \in Operations
    /\ DispatchDone
    /\ lastEvent' = OperationSettles(inflight[1].op, inflight[1].id, outcome)
    /\ inflight' = <<>>
    /\ UNCHANGED <<fields, timers, pendingThen, disposed, dispatch>>

\* What the gateway (or the transport) answers to a request of an operation
CallReplies ==
    { Returned(Payload(<<>>)),
      Returned(FlagPayload("true")),
      Returned(FlagPayload("false")),
      Returned(ErrorBody(404, NOT_FOUND_THING)),
      Returned(ErrorBody(404, NOT_FOUND_REQUEST)),
      Returned(ErrorBody(500, OTHER_MESSAGE)),
      Returned(ErrorBody(500, MENTIONS_404)),
      Returned(ErrorBody(502, ISA_SIGNAL)),
      Thrown(HTTP_404_NO_BODY),
      TIMEOUT }

InitCall ==
    /\ gatewayUrl = "http://gateway:3000" /\ initialized \in BOOLEAN
    /\ ISAUrls \in { <<>>, <<"http://isa1">> }
    /\ zoneId = "default" /\ serverId \in {0, 1} /\ monitorInterval = 0
    /\ statusMessage = Initializing /\ cachedServer = NoServer
    /\ monitorPorts = <<>> /\ connected = FALSE
    /\ timers = <<>> /\ inflight = <<>> /\ pendingThen = <<>>
    /\ disposed = FALSE /\ lastEvent = NoEvent
    /\ frames = <<>> /\ http = <<>> /\ reconnectCalls = <<>> /\ outcome = Pending

NextCall ==
    \/ \E op \in Operations : Operation(op)
    \/ frames # <<>> /\ \E reply \in CallReplies : HttpReply(reply)
    \/ OperationSettled

SpecCall == InitCall /\ [][NextCall]_vars

(***************************************************************************)
(* SpecClassify: the sendRaw of an operation has settled with a decoded    *)
(* body of any shape, and sendBase classifies it (_ensureGoodResponse,     *)
(* _isAnErrorResponse).                                                    *)
(***************************************************************************)
Statuses == {0, 200, 404, 500, 502}
Messages == {"", OTHER_MESSAGE, NOT_FOUND_THING}

\* a value that is no object (a string, a number, null)
NonObject == Body(FALSE, FALSE, FALSE, 0, FALSE, FALSE, "", <<>>)

\* the decoded bodies: no object, or an object with or without a status
\* property (a number or not), a message and a stack (strings or not)
BodySpace ==
    {NonObject} \cup
    { Body(TRUE, hasStatus, statusIsNum, status, msgIsStr, stackIsStr, message, <<>>) :
        hasStatus \in BOOLEAN, statusIsNum \in BOOLEAN, status \in Statuses,
        msgIsStr \in BOOLEAN, stackIsStr \in BOOLEAN, message \in Messages }

\* a status that is no number or no property at all is modelled as 0, a
\* message that is no string as ""
Decodable(body) ==
    /\ ~body.hasStatus => ~body.statusIsNum
    /\ ~body.statusIsNum => body.status = 0
    /\ ~body.msgIsStr => body.message = ""

InitClassify ==
    /\ gatewayUrl = "http://gateway:3000" /\ initialized = TRUE
    /\ ISAUrls = <<"http://isa1">>
    /\ zoneId = "default" /\ serverId = 1 /\ monitorInterval = 0
    /\ statusMessage = Initializing /\ cachedServer = NoServer
    /\ monitorPorts = <<>> /\ connected = FALSE
    /\ timers = <<>> /\ pendingThen = <<>>
    /\ disposed = FALSE /\ lastEvent = NoEvent
    /\ \E op \in {"createPort", "getCopyRemaining"} :
          inflight = <<Call(op, "", zoneId, serverId)>>
    /\ \E body \in {b \in BodySpace : Decodable(b)} :
          /\ outcome = Returned(body)
          /\ http = <<[HttpCall("orig", 1, "first", <<>>) EXCEPT !.reply = Returned(body)]>>
    /\ frames = <<>> /\ reconnectCalls = <<>>

NextClassify == OperationSettled

SpecClassify == InitClassify /\ [][NextClassify]_vars

(***************************************************************************)
(* Claims about the dispatch path (SpecDispatch)                           *)
(***************************************************************************)
IsSignal(reply) == reply.kind = "return" /\ IsProvideISA(reply.body)

\* the dispatched request answered first by the gateway's 502 signal
FirstReplyIsSignal == http # <<>> /\ http[1].req = "orig" /\ IsSignal(http[1].reply)

\* HTTP requests that send the dispatched request a second time
Reissues == {i \in 1..Len(http) : http[i].req = "orig" /\ http[i].attempt = "retry"}

\* reconnectToISA calls made by the sendRaw of the dispatched request itself
DirectReconnects == {i \in 1..Len(reconnectCalls) : reconnectCalls[i] = 1}

\* connect requests sent by the reconnectToISA call of the dispatched request
ConnectCalls == {i \in 1..Len(http) : http[i].depth = 2}

LastOf(S) == CHOOSE i \in S : \A j \in S : j <= i

\* that reconnectToISA call resolved: the last reply to its connect request
\* (the first, or the retried one) is no error response
ReconnectResolved ==
    /\ ConnectCalls # {}
    /\ LET reply == http[LastOf(ConnectCalls)].reply
       IN  reply.kind = "return" /\ ~IsAnErrorResponse(reply.body)

\* C1 (as stated): a 502 'first provide a quantel isa' reply to a dispatched
\* request triggers exactly one reconnectToISA call and exactly one re-issue
\* of the request, and a second 502 signal on the re-issued request is
\* returned to the caller with no further reconnect.
C1_ExactlyOneReconnectOneRetry ==
    (DispatchDone /\ FirstReplyIsSignal) =>
        /\ Len(reconnectCalls) = 1
        /\ Cardinality(Reissues) = 1
        /\ outcome = http[Len(http)].reply

\* C1 (amended): the sendRaw of a dispatched request answered by the 502
\* signal calls reconnectToISA exactly once itself; the request is re-issued
\* exactly once when that reconnect resolves and not at all when it fails
\* (the dispatch then fails with the reconnect's error); the reply to the
\* re-issued request, the same 502 signal included, is returned as it is with
\* no further reconnect. The connect request goes through sendRaw as well, so
\* a 502 signal answering it makes nested reconnectToISA calls (see C2).
C1_RecoveryOfTheDispatch ==
    /\ Cardinality(DirectReconnects) <= 1
    /\ Cardinality(Reissues) <= 1
    /\ (DispatchDone /\ FirstReplyIsSignal) =>
        /\ Cardinality(DirectReconnects) = 1
        /\ Cardinality(Reissues) = (IF ReconnectResolved THEN 1 ELSE 0)
        /\ ReconnectResolved =>
              /\ Reissues = {Len(http)}
              /\ outcome = http[Len(http)].reply
        /\ ~ReconnectResolved => outcome.kind = "throw"

\* C1 witness: the re-issued request was answered by the 502 signal again and
\* that reply is the caller's result
C1_Witness ==
    /\ DispatchDone /\ FirstReplyIsSignal
    /\ Reissues = {Len(http)}
    /\ IsSignal(http[Len(http)].reply)
    /\ outcome = http[Len(http)].reply

\* C2: the recovery is one bounded step for every gateway behaviour: one
\* dispatched request makes at most one reconnect attempt and at most three
\* HTTP calls (the request, the connect request, the request again), also
\* when the gateway answers the connect request with the 502 signal.
C2_RecoveryIsOneBoundedStep ==
    /\ Len(reconnectCalls) <= 1
    /\ Len(http) <= 3

(***************************************************************************)
(* Claims about the monitor and the server identifier (Spec)               *)
(***************************************************************************)
\* C3: after dispose() has returned, the status-change callback is never
\* invoked again, whatever timers were queued and whatever tick was in flight.
C3_NoCallbackAfterDispose == disposed => ~lastEvent.called

\* C4: a tick invokes the callback exactly when the status it computed
\* differs from the stored status message, and then stores that status; a
\* tick computing the stored status invokes no callback and leaves the stored
\* status as it is.
C4_CallbackOnlyOnChange ==
    [][ lastEvent'.op = "tick" =>
          /\ lastEvent'.called <=> (lastEvent'.status # statusMessage)
          /\ lastEvent'.called => statusMessage' = lastEvent'.status
          /\ ~lastEvent'.called => statusMessage' = statusMessage ]_vars

\* C4 witness: a tick has computed the degraded status already stored and
\* has not invoked the callback
C4_Witness ==
    /\ lastEvent.op = "tick" /\ ~lastEvent.called
    /\ lastEvent.status = statusMessage
    /\ lastEvent.status.kind = "Server ${serverId} not found on ISA"

\* C5: setServerId(id) with a non-empty id that the zone's server listing
\* does not hold always rejects with 'Server <id> not found on ISA!' and
\* leaves the server cache empty.
C5_UnlistedIdIsRejected ==
    (lastEvent.op = "setServerId" /\ lastEvent.id # 0 /\ lastEvent.listed = "absent") =>
        /\ lastEvent.result = "rejected"
        /\ lastEvent.error = ServerNotFoundError(lastEvent.id)
        /\ cachedServer = NoServer

\* C6 (as stated): once a setServerId call with a non-empty identifier has
\* settled, the Session holds no identifier that could not be resolved: after
\* a failed call the serverId accessor does not return the unresolved
\* identifier.
C6_NoUnresolvedIdAfterFailure ==
    (/\ lastEvent.op = "setServerId" /\ lastEvent.id # 0
     /\ lastEvent.result = "rejected" /\ lastEvent.listed = "absent") =>
        serverId # lastEvent.id

\* C6 (amended): an unresolvable identifier is never accepted silently: a
\* setServerId call with a non-empty identifier resolves only when the
\* listing it received holds a record of the identifier configured at that
\* moment, which is then the cached record, and rejects otherwise; the
\* identifier of a rejected call stays configured (the serverId accessor
\* returns it).
C6_ResolvedOnlyWithRecord ==
    (lastEvent.op = "setServerId" /\ lastEvent.id # 0) =>
        /\ lastEvent.result \in {"resolved", "rejected"}
        /\ lastEvent.result = "resolved" =>
              /\ serverId # 0
              /\ cachedServer # NoServer
              /\ cachedServer.ident = serverId
        /\ (lastEvent.listed # "" /\ cachedServer = NoServer) =>
              /\ lastEvent.result = "rejected"
              /\ lastEvent.error = ServerNotFoundError(serverId)

\* C6 witness: the call was rejected for an identifier the listing does not
\* hold, and that identifier is still the configured one
C6_Witness ==
    /\ lastEvent.op = "setServerId" /\ lastEvent.id # 0
    /\ lastEvent.result = "rejected" /\ lastEvent.listed = "absent"
    /\ lastEvent.error = ServerNotFoundError(lastEvent.id)
    /\ serverId = lastEvent.id
    /\ cachedServer = NoServer

\* C10 (as stated): connected is true only while the status message is
\* healthy (null); the two are updated together, never one without the other.
C10_ConnectedOnlyWhileHealthy == connected => statusMessage = Healthy

\* C10 (amended): a tick that computes the healthy status (null) has set
\* connected to true in the same step, and a tick that invokes the callback
\* has stored the status it passes; connected itself is written apart from
\* the status message (false when a tick starts, true once the tick has found
\* the server present and up), so it can be true under a degraded message and
\* false under a healthy one.
C10_HealthyTickIsConnected ==
    /\ (lastEvent.op = "tick" /\ lastEvent.status = Healthy) => connected
    /\ (lastEvent.op = "tick" /\ lastEvent.called) => statusMessage = lastEvent.status

\* C10 witness: a tick has found the server up, stored the healthy status and
\* invoked the callback
C10_Witness ==
    /\ lastEvent.op = "tick" /\ lastEvent.called
    /\ lastEvent.status = Healthy /\ statusMessage = Healthy
    /\ connected

(***************************************************************************)
(* Claims about the port check of a tick (SpecTick)                        *)
(***************************************************************************)
\* the tick that has just completed reached the port check, with the server
\* record it stored in the cache
TickReachedPortCheck ==
    /\ lastEvent.op = "tick"
    /\ cachedServer # NoServer /\ ~cachedServer.down

NameAbsent(server, portId) ==
    \A i \in 1..Len(server.portNames) : server.portNames[i] # portId

NonEmptyPortNames(server) ==
    Cardinality({i \in 1..Len(server.portNames) : server.portNames[i] # ""})

\* the port name chanPorts maps the channel to, "" when it maps it to none
MappedTo(server, channel) ==
    IF channel + 1 \in DOMAIN server.chanPorts THEN server.chanPorts[channel + 1] ELSE ""

\* the messages of the tick's diagnostic
Reported == { lastEvent.status.errors[j] : j \in 1..Len(lastEvent.status.errors) }

NoRoomFor(server, port) ==
    NameAbsent(server, port.id) /\ NonEmptyPortNames(server) = server.numChannels

TakenChannels(server, port) ==
    { port.channels[k] : k \in { k \in 1..Len(port.channels) :
          /\ MappedTo(server, port.channels[k]) # ""
          /\ MappedTo(server, port.channels[k]) # port.id } }

\* C7: in a tick that reaches the port check, every monitored port whose
\* name is absent from portNames while the number of non-empty portNames
\* equals numChannels yields the 'all ports being already used' message in
\* the tick's diagnostic.
C7_NoRoomIsReported ==
    TickReachedPortCheck =>
        \A p \in 1..Len(monitorPorts) :
            NoRoomFor(cachedServer, monitorPorts[p]) =>
                /\ lastEvent.status.kind = "serverErrors.join"
                /\ AllPortsUsed(monitorPorts[p].id) \in Reported

\* C7 witness: a tick reported no room for a monitored port on a server with
\* channels, all of them taken by other ports
C7_Witness ==
    /\ TickReachedPortCheck
    /\ cachedServer.numChannels > 0
    /\ \E p \in 1..Len(monitorPorts) :
          /\ NoRoomFor(cachedServer, monitorPorts[p])
          /\ AllPortsUsed(monitorPorts[p].id) \in Reported

\* C8 (as stated): in a tick that reaches the port check, every channel a
\* monitored port declares that chanPorts maps to another port name yields
\* the 'channel already assigned to another port' message, whether or not
\* the no-room message is recorded for the same port.
C8_TakenChannelIsReported ==
    TickReachedPortCheck =>
        \A p \in 1..Len(monitorPorts) :
            \A channel \in TakenChannels(cachedServer, monitorPorts[p]) :
                ChannelAssigned(monitorPorts[p].id, channel,
                                MappedTo(cachedServer, channel)) \in Reported

\* C8 (amended): ... yields the 'channel already assigned to another port'
\* message unless the no-room message is recorded for the same port: the
\* channels of a port are examined only when the port exists on the server
\* or the server has room for it, and a port with the no-room message gets
\* no message about its channels.
C8_TakenChannelIsReportedUnlessNoRoom ==
    TickReachedPortCheck =>
        \A p \in 1..Len(monitorPorts) :
            IF NoRoomFor(cachedServer, monitorPorts[p])
            THEN \A m \in Reported :
                    m.port = monitorPorts[p].id => m = AllPortsUsed(monitorPorts[p].id)
            ELSE \A channel \in TakenChannels(cachedServer, monitorPorts[p]) :
                    ChannelAssigned(monitorPorts[p].id, channel,
                                    MappedTo(cachedServer, channel)) \in Reported

\* C8 witness: a tick reported a channel of a monitored port as assigned to
\* another port
C8_Witness ==
    /\ TickReachedPortCheck
    /\ \E p \in 1..Len(monitorPorts) :
          /\ ~NoRoomFor(cachedServer, monitorPorts[p])
          /\ \E channel \in TakenChannels(cachedServer, monitorPorts[p]) :
                ChannelAssigned(monitorPorts[p].id, channel,
                                MappedTo(cachedServer, channel)) \in Reported

\* C9: no message is recorded for a monitored port when every channel it
\* declares is unmapped or mapped to its own name and its name is in
\* portNames or the number of non-empty portNames is below numChannels.
C9_ConsistentPortHasNoConflict ==
    TickReachedPortCheck =>
        \A p \in 1..Len(monitorPorts) :
            (/\ TakenChannels(cachedServer, monitorPorts[p]) = {}
             /\ \/ ~NameAbsent(cachedServer, monitorPorts[p].id)
                \/ NonEmptyPortNames(cachedServer) < cachedServer.numChannels) =>
                \A m \in Reported : m.port # monitorPorts[p].id

\* C9 witness: the example of the specification: numChannels = 2, portNames
\* ['A', ''], chanPorts ['A', undefined]; port B on channel 0 is reported as
\* assigned to A, port C on channel 1 gets no message
C9_Witness ==
    /\ TickReachedPortCheck
    /\ cachedServer = ServerInfo(1, FALSE, 2, <<"A", "">>, <<"A", "">>)
    /\ monitorPorts = <<MonitorPort("B", <<0>>), MonitorPort("C", <<1>>)>>
    /\ lastEvent.status = ServerErrorsJoined(<<ChannelAssigned("B", 0, "A")>>)

\* C11: no exception escapes a poll tick: whatever the tick's server listing
\* fails with (a gateway error, a transport failure, a failed reconnect) is
\* caught and becomes the diagnostic 'Error when monitoring status: <text>'
\* of that tick; the tick rejects nothing and leaves the timers running.
C11_TickCatchesEveryFailure ==
    [][ (lastEvent'.op = "tick" /\ lastEvent'.error # NoErr) =>
          /\ lastEvent'.status = MonitoringError(lastEvent'.error)
          /\ lastEvent'.status.text # ""
          /\ lastEvent'.result # "rejected"
          /\ timers' = timers ]_vars

\* C11 witness: a tick whose listing failed has stored the diagnostic and
\* invoked the callback, with the timer still armed
C11_Witness ==
    /\ lastEvent.op = "tick" /\ lastEvent.error # NoErr /\ lastEvent.called
    /\ statusMessage.kind = "Error when monitoring status: ${message}"
    /\ \E t \in 1..Len(timers) : timers[t]

\* C12: a monitor started while the gateway address is unset computes 'Gateway
\* URL not set' in its first tick, whose reaction invokes the callback with
\* (false, that diagnostic); later ticks that compute it again invoke nothing;
\* once init has succeeded, a tick that finds the server present and up (no
\* port conflicts) computes null and, the stored status being a diagnostic,
\* invokes the callback with (true, null).
C12_UnsetGatewayThenHealthy ==
    [][ /\ (gatewayUrl = "" /\ Len(timers') > Len(timers)) =>
              pendingThen' = Append(pendingThen, GatewayUrlNotSet)
        /\ (gatewayUrl = "" /\ pendingThen = <<>> /\ lastEvent'.op = "tick") =>
              lastEvent'.status = GatewayUrlNotSet
        /\ (lastEvent'.op = "tick" /\ lastEvent'.status = GatewayUrlNotSet) =>
              /\ ~connected'
              /\ statusMessage' = GatewayUrlNotSet
              /\ lastEvent'.called <=> statusMessage # GatewayUrlNotSet
        /\ (/\ lastEvent'.op = "tick" /\ lastEvent'.error = NoErr
            /\ pendingThen = <<>> /\ gatewayUrl # "" /\ serverId # 0
            /\ initialized /\ cachedServer' # NoServer /\ ~cachedServer'.down
            /\ monitorPorts = <<>>) =>
              /\ lastEvent'.status = Healthy /\ statusMessage' = Healthy
              /\ connected'
              /\ lastEvent'.called <=> statusMessage # Healthy ]_vars

\* C12 witness: the first tick of a monitor started on a fresh Session has
\* invoked the callback with (false, 'Gateway URL not set')
C12_Witness ==
    /\ gatewayUrl = "" /\ ~initialized /\ timers # <<>>
    /\ lastEvent.op = "tick" /\ lastEvent.called
    /\ lastEvent.status = GatewayUrlNotSet /\ statusMessage = GatewayUrlNotSet
    /\ ~connected

(***************************************************************************)
(* Claims about the typed operations (SpecCall)                            *)
(***************************************************************************)
\* the operation called last: in flight, or settled
LastOperation == IF inflight # <<>> THEN inflight[1].op ELSE lastEvent.op

\* the operation called last has settled after its request was dispatched,
\* outcome being what sendRaw settled with
SettledAfterDispatch ==
    /\ inflight = <<>> /\ lastEvent.op \in Operations
    /\ DispatchDone

\* sendRaw settled with an error response of the gateway
GatewayErrorOutcome == outcome.kind = "return" /\ IsAnErrorResponse(outcome.body)

\* the gateway answered with HTTP 404: an error response of status 404, or
\* no body at all
Gateway404Outcome ==
    \/ GatewayErrorOutcome /\ outcome.body.status = 404
    \/ outcome = Thrown(HTTP_404_NO_BODY)

\* C14: getPort and getClip resolve to null exactly when the gateway answered
\* with an HTTP 404 error whose message lacks the generic 'Not found. Request'
\* text; a 404 with the generic text and every gateway error of another
\* status is thrown to the caller, never turned into null.
C14_NullExactlyOnSpecific404 ==
    (SettledAfterDispatch /\ lastEvent.op \in CatchingOperations) =>
        /\ lastEvent.result = "null" <=>
              (Gateway404Outcome /\ outcome.body.message # NOT_FOUND_REQUEST)
        /\ (GatewayErrorOutcome /\ lastEvent.result # "null") =>
              /\ lastEvent.result = "rejected"
              /\ lastEvent.error = Err(outcome.body.status, outcome.body.message)

\* C15 (as stated): while the Session is not initialized every operation
\* fails with 'Quantel not initialized yet' and sends no HTTP request; while
\* no server identifier is configured every server-scoped operation fails
\* with 'QuantelClient.serverId not set' and sends no HTTP request.
C15_ConfigurationErrorsFailFast ==
    LastOperation \in Operations =>
        /\ ~initialized =>
              /\ http = <<>> /\ inflight = <<>>
              /\ lastEvent = Rejected(LastOperation, serverId, "", NOT_INITIALIZED)
        /\ (LastOperation \in ServerOperations /\ serverId = 0) =>
              /\ http = <<>> /\ inflight = <<>>
              /\ lastEvent = Rejected(LastOperation, serverId, "", SERVER_ID_NOT_SET)

\* C15 (amended): ... while the Session is not initialized every operation
\* fails without an HTTP request, with 'Quantel not initialized yet' unless
\* it is server-scoped and no server identifier is configured: the test of
\* the server identifier comes first, so such an operation fails with
\* 'QuantelClient.serverId not set', initialized or not.
C15_ConfigurationErrorsInOrder ==
    LastOperation \in Operations =>
        /\ (~initialized \/ (LastOperation \in ServerOperations /\ serverId = 0)) =>
              /\ http = <<>> /\ inflight = <<>>
              /\ lastEvent.result = "rejected"
              /\ lastEvent.error =
                    IF LastOperation \in ServerOperations /\ serverId = 0
                    THEN SERVER_ID_NOT_SET ELSE NOT_INITIALIZED
        /\ (initialized /\ ~(LastOperation \in ServerOperations /\ serverId = 0)) =>
              http # <<>>

\* C15 witness: a server-scoped operation with a server identifier, called on
\* a Session that is not initialized, has failed without a request
C15_Witness ==
    /\ ~initialized /\ serverId # 0
    /\ lastEvent.op \in ServerOperations
    /\ lastEvent.result = "rejected" /\ lastEvent.error = NOT_INITIALIZED
    /\ http = <<>> /\ inflight = <<>>

ReleaseOperations == {"releasePort", "resetPort"}

\* the request of the settled operation succeeded at gateway level
GatewaySuccessOutcome == outcome.kind = "return" /\ ~IsAnErrorResponse(outcome.body)

NamesTheOperation(event) ==
    /\ event.result = "rejected"
    /\ event.error = Err(0, FlagErrorText(event.op))
    /\ FlagErrorText(event.op) # ""

\* C16 (as stated): for portPlay, portStop, portHardJump, portPrepareJump,
\* portTriggerJump, portClearFragments, releasePort and resetPort a response
\* that succeeded at gateway level with a false flag becomes a thrown error
\* naming the operation, and the payload is returned only when the flag is
\* true.
C16_FalseFlagIsThrown ==
    (/\ SettledAfterDispatch /\ GatewaySuccessOutcome
     /\ lastEvent.op \in FlagOperations \cup ReleaseOperations) =>
        /\ outcome.body.flag = "false" => NamesTheOperation(lastEvent)
        /\ lastEvent.result = "resolved" => outcome.body.flag = "true"

\* C16 (amended): for portPlay, portStop, portHardJump, portPrepareJump,
\* portTriggerJump and portClearFragments a response that succeeded at
\* gateway level with a false (or missing) success or wiped flag becomes a
\* thrown error naming the operation, and the payload is returned only when
\* the flag is true; releasePort and resetPort return the payload whatever
\* its released flag says.
C16_FalseFlagIsThrownByTriggerJumpWipe ==
    (SettledAfterDispatch /\ GatewaySuccessOutcome) =>
        /\ lastEvent.op \in FlagOperations =>
              IF outcome.body.flag = "true"
              THEN lastEvent.result = "resolved"
              ELSE NamesTheOperation(lastEvent)
        /\ lastEvent.op \in ReleaseOperations => lastEvent.result = "resolved"

\* C16 witness: portPlay has thrown its error on a payload with success false
C16_Witness ==
    /\ SettledAfterDispatch /\ outcome = Returned(FlagPayload("false"))
    /\ lastEvent.op = "portPlay"
    /\ lastEvent.error = Err(0, FlagErrorText("portPlay"))

(***************************************************************************)
(* Claim about the error classifier (SpecClassify)                         *)
(***************************************************************************)
\* a record {status, message, stack} with a numeric status other than 200
\* and a string message and stack
ErrorShaped(body) ==
    /\ body.obj /\ body.hasStatus /\ body.statusIsNum /\ body.status # 200
    /\ body.msgIsStr /\ body.stackIsStr

\* C13: the classifier takes every record {status, message, stack} with a
\* numeric status other than 200 (0 included) and a string message and stack
\* for a gateway error, which sendBase throws, and every other body for a
\* successful payload, which sendBase returns.
C13_ErrorShapeIsClassified ==
    (SettledAfterDispatch /\ outcome.kind = "return") =>
        /\ IsAnErrorResponse(outcome.body) <=> ErrorShaped(outcome.body)
        /\ lastEvent.result = (IF ErrorShaped(outcome.body) THEN "rejected" ELSE "resolved")

(***************************************************************************)
(* Claims about init (Spec)                                                *)
(***************************************************************************)
InitCalls == {i \in 1..Len(inflight) : inflight[i].op = "init"}

\* C17: init clears the initialized flag and the cache and stores the
\* address, then connects, then stores the zone, then resolves the server
\* identifier, then sets initialized: while an init call is between its
\* first step and its last (awaiting its connect request or its server
\* listing) initialized is false, and a call awaiting its connect reply has
\* stored the address but not yet its zone's server identifier.
C17_NotInitializedDuringInit ==
    InitCalls # {} => (~initialized /\ gatewayUrl # "")

\* the step reports the failure of the init call inflight[i]
InitFails(i) ==
    /\ i \in InitCalls
    /\ inflight' = Remove(inflight, i)
    /\ lastEvent'.op = "init" /\ lastEvent'.result = "rejected"

\* C18 (as stated): when the failure of an init call is reported the Session
\* is not initialized, and the gateway address and the zone passed to the
\* call ('default' for none) are stored.
C18_FailedInitHasAddressAndZone ==
    (lastEvent.op = "init" /\ lastEvent.result = "rejected") =>
        /\ ~initialized
        /\ gatewayUrl = "http://gateway:3000"
        /\ zoneId = "default"

\* C18 (amended): a failed init does not set initialized and leaves the
\* configuration partially applied: the normalized gateway address and the
\* ISA endpoint list are stored before the first await, whichever step
\* fails; the zone is stored only once the ISA connect has succeeded, so it
\* is stored when the server identifier cannot be resolved and is left as it
\* was when the ISA connect fails.
C18_FailedInitIsPartiallyApplied ==
    [][ /\ \A i \in 1..Len(inflight) : InitFails(i) =>
              /\ initialized' = initialized
              /\ gatewayUrl' = gatewayUrl /\ gatewayUrl = "http://gateway:3000"
              /\ ISAUrls' = ISAUrls
              /\ zoneId' = zoneId
              /\ inflight[i].stage = "server" =>
                    zoneId = (IF inflight[i].zone = "" THEN "default" ELSE inflight[i].zone)
        /\ (lastEvent'.op = "init" /\ lastEvent'.error = ISA_NOT_SET /\ inflight' = inflight) =>
              /\ ~initialized'
              /\ gatewayUrl' = "http://gateway:3000"
              /\ ISAUrls' = <<>>
              /\ zoneId' = zoneId ]_vars

\* C18 witness: init has failed to resolve its server identifier, with the
\* address and the zone stored
C18_Witness ==
    /\ lastEvent.op = "init" /\ lastEvent.result = "rejected"
    /\ lastEvent.listed = "absent"
    /\ ~initialized /\ gatewayUrl = "http://gateway:3000" /\ zoneId = "default"

(***************************************************************************)
(* Claim about connecting without ISA endpoints (SpecDispatch)             *)
(***************************************************************************)
ConnectRequests == {i \in 1..Len(http) : http[i].req = "connect"}

\* C19: asking to connect while the endpoint list is empty (connectToISA
\* with an empty list or an empty string, reconnectToISA, the reconnect of
\* the 502 recovery) fails with 'Quantel ISAUrls not set!' and sends no
\* connect request; in the recovery the dispatched request fails with that
\* error instead of the gateway's reply.
C19_NoEndpointsNoConnect ==
    (ISAUrls = <<>> /\ reconnectCalls # <<>>) =>
        /\ DispatchDone
        /\ outcome = Thrown(ISA_NOT_SET)
        /\ ConnectRequests = {}
        /\ Len(reconnectCalls) = 1
        /\ reconnectCalls[1] = 0 => http = <<>>
        /\ reconnectCalls[1] = 1 => (Len(http) = 1 /\ FirstReplyIsSignal)

\* C19 witness: a dispatched request answered by the 502 signal has failed
\* with 'Quantel ISAUrls not set!', no connect request sent
C19_Witness ==
    /\ ISAUrls = <<>> /\ FirstReplyIsSignal
    /\ reconnectCalls = <<1>> /\ Len(http) = 1
    /\ outcome = Thrown(ISA_NOT_SET)

(***************************************************************************)
(* Claim about the order of a tick's checks (SpecTick)                     *)
(***************************************************************************)
\* the conflict messages the port check owes one monitored port
ConflictsOf(server, port) ==
    IF NoRoomFor(server, port) THEN {AllPortsUsed(port.id)}
    ELSE { ChannelAssigned(port.id, channel, MappedTo(server, channel)) :
             channel \in TakenChannels(server, port) }

AllConflicts(server, ports) ==
    UNION { ConflictsOf(server, ports[p]) : p \in 1..Len(ports) }

\* C20: the diagnostic of a tick that caught no exception is that of the
\* first failing check in the order: gateway address unset, server
\* identifier unset, server not found, server down, port or channel
\* conflicts (all of them joined), Session not initialized; it is null only
\* when all six pass.
C20_FirstFailingCheck ==
    (lastEvent.op = "tick" /\ lastEvent.error = NoErr) =>
        IF gatewayUrl = "" THEN lastEvent.status = GatewayUrlNotSet
        ELSE IF serverId = 0 THEN lastEvent.status = ServerIdNotSet
        ELSE IF cachedServer = NoServer THEN lastEvent.status = ServerNotFound(serverId)
        ELSE IF cachedServer.down THEN lastEvent.status = ServerDown(cachedServer.ident)
        ELSE IF AllConflicts(cachedServer, monitorPorts) # {}
             THEN /\ lastEvent.status.kind = "serverErrors.join"
                  /\ Reported = AllConflicts(cachedServer, monitorPorts)
        ELSE IF ~initialized THEN lastEvent.status = NotInitialized
        ELSE lastEvent.status = Healthy

\* C20 witness: 'Not initialized' reported by a tick that found the server
\* up and no conflict among the monitored ports declared
C20_Witness ==
    /\ lastEvent.op = "tick" /\ lastEvent.status = NotInitialized
    /\ ~initialized /\ monitorPorts # <<>>
    /\ cachedServer # NoServer /\ ~cachedServer.down
    /\ AllConflicts(cachedServer, monitorPorts) = {}

(***************************************************************************)
(* Claims about the endpoint list and plain replies (SpecDispatch)         *)
(***************************************************************************)
\* the endpoint lists an application can configure
ConfigurableLists == ISAUrlLists \cup { ISAUrlsOf(arg) : arg \in ConnectArguments }

\* C22: connectToISA replaces the endpoint list wholesale (exactly the given
\* endpoints in the given order), also when the connect request then fails,
\* and every connect request, that of a later reconnectToISA or of the 502
\* recovery included, carries all endpoints of the configured list with the
\* scheme stripped, in list order.
C22_ConnectCarriesTheWholeList ==
    /\ ISAUrls \in ConfigurableLists
    /\ \A i \in ConnectRequests :
          /\ Len(http[i].isa) = Len(ISAUrls) /\ ISAUrls # <<>>
          /\ \A j \in 1..Len(ISAUrls) : http[i].isa[j] = StripScheme(ISAUrls[j])
    /\ \A k \in 1..Len(frames) :
          frames[k].req = "connect" => Len(frames[k].isa) = Len(ISAUrls)

\* C22 witness: the connect request of a 502 recovery carries both endpoints
\* of the list, master first, and the recovery failed
C22_Witness ==
    /\ ISAUrls = <<"http://isa1", "https://isa2">>
    /\ FirstReplyIsSignal /\ DispatchDone /\ outcome.kind = "throw"
    /\ \E i \in ConnectRequests : http[i].isa = <<"isa1", "isa2">>

\* C29: every reply to a dispatched request other than the 502 signal (a
\* payload, a 404, a 502 with another message, another status with the
\* signal's message, a transport failure) is returned as it is, with no
\* reconnect and no retry: one HTTP request.
C29_OtherRepliesAreReturnedAsTheyAre ==
    (http # <<>> /\ http[1].req = "orig" /\ http[1].reply # Pending
     /\ ~(/\ http[1].reply.kind = "return"
          /\ http[1].reply.body.status = 502
          /\ http[1].reply.body.message \in {ISA_SIGNAL, ISA_SIGNAL_UPPER})) =>
        /\ DispatchDone
        /\ Len(http) = 1 /\ reconnectCalls = <<>>
        /\ outcome = http[1].reply

\* C29 witness: an error response of status 500 with the signal's message was
\* returned to the caller layer
C29_Witness ==
    /\ DispatchDone /\ Len(http) = 1 /\ reconnectCalls = <<>>
    /\ outcome = Returned(ErrorBody(500, ISA_SIGNAL))

(***************************************************************************)
(* Claims about the monitor and the connected flag (Spec)                  *)
(***************************************************************************)
\* the statuses of a tick that passed line 130: the server was found, not down
ConfirmedStatuses == {"null", "Not initialized", "serverErrors.join"}

\* C21: after a tick that found the server present and up, connected is true,
\* also when the tick ends with a degraded status of a later step; after a
\* tick that stopped before (address or id unset, server absent or down) or
\* that caught an exception, connected is false.
C21_ConnectedIffServerConfirmed ==
    lastEvent.op = "tick" =>
        (connected <=> lastEvent.status.kind \in ConfirmedStatuses)

\* the ticks suspended at their listing request
TicksInFlight == { i \in 1..Len(inflight) : inflight[i].op = "tick" }

\* this step is a call of monitorServerStatus
MonitorStarts == Len(timers') > Len(timers)

\* C25: monitorServerStatus arms an interval timer and starts one tick right
\* away; the timer stays armed, starting a tick whenever it fires, until
\* dispose clears it; a tick starts whether or not another tick is in flight,
\* so two ticks can be in flight together.
C25_TickAtOnceAndAtEveryInterval ==
    [][ /\ MonitorStarts =>
              /\ timers' = Append(timers, TRUE)
              /\ IF gatewayUrl # "" /\ serverId # 0
                 THEN inflight' = Append(inflight, Call("tick", "", "", 0))
                 ELSE /\ Len(pendingThen') = Len(pendingThen) + 1
                      /\ inflight' = inflight
        /\ \A t \in 1..Len(timers) :
              (timers[t] /\ ~timers'[t]) => lastEvent'.op = "dispose"
        /\ \A i \in 1..Len(inflight') :
              (inflight'[i].op = "tick" /\ inflight' # inflight /\ i > Len(inflight)) =>
                  \/ MonitorStarts
                  \/ \E t \in 1..Len(timers) : timers[t] ]_vars

\* C25 witness: two ticks are in flight together, the timer still armed
C25_Witness ==
    /\ Len(inflight) = 2 /\ TicksInFlight = {1, 2}
    /\ \E t \in 1..Len(timers) : timers[t]

\* C27: dispose clears the timer of the current monitor and nothing else:
\* initialized, connected, the status message, the gateway address, the ISA
\* list, the zone, the server id, the monitored ports and the cache keep their
\* values, the calls in flight stay in flight, and a dispose without a monitor
\* or after a dispose changes nothing.
C27_DisposeOnlyStopsTheTimer ==
    [][ lastEvent'.op = "dispose" =>
          /\ UNCHANGED <<initialized, connected, statusMessage, gatewayUrl, ISAUrls,
                         zoneId, serverId, monitorPorts, cachedServer, monitorInterval>>
          /\ inflight' = inflight /\ pendingThen' = pendingThen
          /\ Len(timers') = Len(timers)
          /\ \A t \in 1..Len(timers) :
                timers'[t] = (timers[t] /\ t # monitorInterval)
          /\ (monitorInterval = 0 \/ ~timers[monitorInterval]) => timers' = timers ]_vars

\* C27 witness: dispose has stopped the timer of an initialized, connected
\* Session while a call was in flight, which still is
C27_Witness ==
    /\ lastEvent.op = "dispose" /\ monitorInterval # 0 /\ ~timers[monitorInterval]
    /\ initialized /\ connected /\ cachedServer # NoServer
    /\ inflight # <<>>

\* C28: a new Session is not initialized, not connected, and its status
\* message is 'Initializing...'; no tick computes that message, so the tick
\* that completes while it is still the stored status invokes the callback,
\* and only a tick replaces it.
C28_InitializingUntilTheFirstTick ==
    /\ ~initialized /\ ~connected /\ statusMessage.kind = "Initializing..."
    /\ [][ /\ lastEvent'.op = "tick" => lastEvent'.status # Initializing
           /\ (lastEvent'.op = "tick" /\ statusMessage = Initializing) =>
                 /\ lastEvent'.called
                 /\ statusMessage' = lastEvent'.status
           /\ (statusMessage = Initializing /\ statusMessage' # Initializing) =>
                 lastEvent'.op = "tick" ]_vars

\* C28 witness: the first tick of a monitor started on a new Session has
\* completed and has invoked the callback
C28_Witness ==
    /\ lastEvent.op = "tick" /\ lastEvent.called
    /\ ~initialized /\ gatewayUrl = "" /\ serverId = 0 /\ ISAUrls = <<>>
    /\ statusMessage = GatewayUrlNotSet /\ inflight = <<>>

\* C30: no tick stops the monitor: whatever status a tick ends with, the
\* timers stay as they were; and a tick that finds the gateway configured, the
\* server up and the Session initialized (no port conflicts) after a degraded
\* status computes null, stores it and invokes the callback with (true, null).
C30_MonitorGoesOnAndRecovers ==
    [][ /\ lastEvent'.op = "tick" => timers' = timers
        /\ (/\ lastEvent'.op = "tick" /\ lastEvent'.error = NoErr
            /\ pendingThen = <<>> /\ gatewayUrl # "" /\ serverId # 0
            /\ initialized /\ monitorPorts = <<>>
            /\ cachedServer'.ident = serverId /\ serverId # 0 /\ ~cachedServer'.down
            /\ statusMessage # Healthy) =>
              /\ lastEvent'.status = Healthy /\ lastEvent'.called
              /\ statusMessage' = Healthy
              /\ connected' ]_vars

\* C30 witness: with the timer armed, a tick has stored the healthy status in
\* place of a degraded one and has invoked the callback
C30_Witness ==
    /\ lastEvent.op = "tick" /\ lastEvent.called /\ lastEvent.status = Healthy
    /\ statusMessage = Healthy /\ connected /\ initialized
    /\ ~disposed /\ \E t \in 1..Len(timers) : timers[t]

(***************************************************************************)
(* Claims about the server cache (SpecCache)                               *)
(***************************************************************************)
\* the cache holds a record of the configured identifier
CacheIsValid == cachedServer # NoServer /\ cachedServer.ident = serverId

\* this step is a getServer call that settles without an HTTP request
GetServerSettlesAtOnce == lastEvent'.op = "getServer" /\ inflight' = inflight

\* this step is a getServer call that sends its listing request
GetServerRequests ==
    /\ Len(inflight') = Len(inflight) + 1
    /\ SubSeq(inflight', 1, Len(inflight)) = inflight
    /\ inflight'[Len(inflight')].op = "getServer"

\* this step is the arrival of the listing a getServer call requested
GetServerListingArrives == lastEvent'.op = "getServer" /\ inflight' # inflight

\* C23: getServer(false) returns the cached record without an HTTP request
\* when the cache holds a record of the configured identifier; every other
\* getServer call sends one listing request, stores the record of the listing
\* that matches the configured identifier and returns it (null when no record
\* matches).
C23_CachedOrOneListing ==
    [][ /\ GetServerSettlesAtOnce =>
              /\ ~lastEvent'.disableCache /\ CacheIsValid
              /\ lastEvent'.result = "resolved" /\ lastEvent'.record = cachedServer
              /\ cachedServer' = cachedServer
        /\ GetServerRequests =>
              (inflight'[Len(inflight')].stage = "unforced" => ~CacheIsValid)
        /\ GetServerListingArrives =>
              /\ lastEvent'.result = "resolved"
              /\ cachedServer' = lastEvent'.record
              /\ lastEvent'.listed = "listed" =>
                    lastEvent'.record # NoServer /\ lastEvent'.record.ident = serverId
              /\ lastEvent'.listed = "absent" => lastEvent'.record = NoServer ]_vars

\* C23 (amended): getServer(false) returns the cached record without an HTTP
\* request when the cache holds a record of the configured identifier; every
\* other getServer call empties the cache and, when no server identifier is
\* configured, rejects with 'QuantelGatewayClient.serverId not set' without a
\* request, and otherwise sends one listing request; when the listing arrives
\* the call stores the record that matches the identifier configured then and
\* returns it (null, the cache empty, when no record matches), and when the
\* request fails the call rejects and leaves the cache as it is.
C23_CachedOrRejectedOrOneListing ==
    [][ /\ GetServerSettlesAtOnce =>
              IF ~lastEvent'.disableCache /\ CacheIsValid
              THEN /\ lastEvent'.result = "resolved" /\ lastEvent'.record = cachedServer
                   /\ cachedServer' = cachedServer
              ELSE /\ serverId = 0
                   /\ lastEvent'.result = "rejected"
                   /\ lastEvent'.error.message = "QuantelGatewayClient.serverId not set"
                   /\ cachedServer' = NoServer
        /\ GetServerRequests =>
              /\ serverId # 0 /\ cachedServer' = NoServer
              /\ inflight'[Len(inflight')].stage = "unforced" => ~CacheIsValid
        /\ GetServerListingArrives =>
              /\ Len(inflight') = Len(inflight) - 1
              /\ IF lastEvent'.listed = ""
                 THEN lastEvent'.result = "rejected" /\ cachedServer' = cachedServer
                 ELSE /\ lastEvent'.result = "resolved"
                      /\ cachedServer' = lastEvent'.record
                      /\ lastEvent'.listed = "listed" =>
                            lastEvent'.record # NoServer /\ lastEvent'.record.ident = serverId
                      /\ lastEvent'.listed = "absent" => lastEvent'.record = NoServer ]_vars

\* C23 witness: getServer(false) has returned the cached record of the
\* configured server, no request in flight
C23_Witness ==
    /\ lastEvent.op = "getServer" /\ lastEvent.result = "resolved"
    /\ ~lastEvent.disableCache /\ lastEvent.position = 0
    /\ lastEvent.record = ServerUp /\ cachedServer = ServerUp /\ serverId = 1
    /\ inflight = <<>>

\* C24: under every interleaving of setServerId, init, getServer and ticks,
\* a record that getServer returns has the server identifier configured when
\* it returns: a record cached for an earlier identifier is not served.
C24_ReturnedRecordHasTheConfiguredId ==
    (lastEvent.op = "getServer" /\ lastEvent.result = "resolved"
     /\ lastEvent.record # NoServer) =>
        lastEvent.record.ident = serverId

\* C24 witness: getServer(false) found a record of server 1 in the cache after
\* the identifier had been changed, dropped it and did not return it
C24_Witness ==
    /\ lastEvent.op = "getServer" /\ ~lastEvent.disableCache
    /\ lastEvent.dropped # NoServer /\ lastEvent.dropped.ident # serverId
    /\ lastEvent.record = NoServer /\ cachedServer = NoServer

\* C26: refreshes of the cache by an application call and a tick, or by two
\* ticks, are not ordered: each one whose listing arrives writes the cache,
\* whichever other refresh is in flight or wrote before, so the cache holds
\* the record of the listing processed last, also when that refresh was the
\* one issued first.
C26_LastProcessedListingWins ==
    [][ /\ (GetServerListingArrives /\ lastEvent'.result = "resolved") =>
              cachedServer' = lastEvent'.record
        /\ (lastEvent'.op = "tick" /\ inflight' # inflight /\ lastEvent'.error = NoErr) =>
              /\ cachedServer' = NoServer <=>
                    lastEvent'.status.kind = "Server ${serverId} not found on ISA"
              /\ (cachedServer' # NoServer /\ cachedServer'.down) <=>
                    lastEvent'.status.kind = "Server ${ident} is down"
        /\ \A i \in 1..Len(inflight') :
              (i > Len(inflight) /\ inflight'[i].op \in {"tick", "getServer"}) =>
                  /\ Len(inflight') = Len(inflight) + 1
                  /\ SubSeq(inflight', 1, Len(inflight)) = inflight ]_vars

\* C26 witness: a tick and a later getServer refreshed together; the listing
\* of getServer was processed first and its record is in the cache, where the
\* listing of the tick, still to arrive, will replace it
C26_Witness ==
    /\ lastEvent.op = "getServer" /\ lastEvent.result = "resolved"
    /\ lastEvent.position = 2
    /\ lastEvent.record # NoServer /\ cachedServer = lastEvent.record
    /\ Len(inflight) = 1 /\ inflight[1].op = "tick"

(***************************************************************************)
(* Claim about a failed recovery (SpecDispatch)                            *)
(***************************************************************************)
\* C38: when the reconnect of the 502 recovery fails (the connect request is
\* answered by an error response or fails in transport), the request is not
\* sent again and the caller gets the error of the reconnect, not the 502
\* reply; no step of a dispatch changes the ISA endpoint list.
C38_FailedReconnectFailsTheRequest ==
    /\ [](( DispatchDone /\ FirstReplyIsSignal /\ ~ReconnectResolved) =>
            /\ Reissues = {}
            /\ outcome.kind = "throw" /\ outcome # http[1].reply
            /\ outcome = IF ConnectRequests = {} THEN Thrown(ISA_NOT_SET)
                         ELSE EnsureGoodResponse(http[Len(http)].reply)
            /\ ConnectRequests # {} => http[Len(http)].req = "connect")
    /\ [][ frames # <<>> => ISAUrls' = ISAUrls ]_vars

\* C38 witness: the connect request of a recovery was answered by an error
\* response of status 500, which the caller of the request got as a thrown
\* error, two HTTP requests made
C38_Witness ==
    /\ DispatchDone /\ FirstReplyIsSignal /\ ISAUrls # <<>>
    /\ Len(http) = 2 /\ http[2].req = "connect"
    /\ http[2].reply = Returned(ErrorBody(500, ISA_SIGNAL))
    /\ outcome = Thrown(Err(500, ISA_SIGNAL))

(***************************************************************************)
(* Claim about the propagation of gateway errors (SpecClassify)            *)
(***************************************************************************)
\* C32: every gateway error response that reaches _ensureGoodResponse (a
\* record with a numeric status other than 200, a message and a stack) is
\* thrown to the caller as an error that carries its status and message,
\* never returned as a payload; every other body is passed on as the payload.
C32_ErrorResponsesAreThrown ==
    (SettledAfterDispatch /\ outcome.kind = "return") =>
        IF ErrorShaped(outcome.body)
        THEN /\ lastEvent.result = "rejected"
             /\ lastEvent.error = Err(outcome.body.status, outcome.body.message)
        ELSE /\ lastEvent.result = "resolved"
             /\ lastEvent.error = NoErr

(***************************************************************************)
(* Claims about the callback (Spec)                                        *)
(***************************************************************************)
\* C31: an exception thrown by the callback is emitted on the 'error' event
\* and makes no status diagnostic: the stored status message is the
\* diagnostic the callback was called with, stored before the call, and the
\* timers stay armed, so later ticks run.
C31_CallbackExceptionIsEmitted ==
    [][ lastEvent'.op = "tick" =>
          /\ lastEvent'.emitted <=>
                (lastEvent'.called /\ lastEvent'.status.kind \in CallbackThrowsOn)
          /\ lastEvent'.emitted =>
                /\ statusMessage' = lastEvent'.status
                /\ statusMessage' # statusMessage
                /\ statusMessage'.kind # "Error when monitoring status: ${message}"
                /\ timers' = timers ]_vars

\* C31 witness: the callback threw when called with 'Server 1 is down'; the
\* diagnostic is stored, the exception emitted, the timer armed
C31_Witness ==
    /\ lastEvent.op = "tick" /\ lastEvent.called /\ lastEvent.emitted
    /\ statusMessage = ServerDown(1)
    /\ ~disposed /\ \E t \in 1..Len(timers) : timers[t]

\* C33: the callback is invoked with a connected flag that is true exactly
\* when the diagnostic is null; the status message changes only in a step
\* that invokes the callback, and then to the diagnostic passed, which differs
\* from the one stored before: so the accessor holds the diagnostic of the
\* latest invocation and two invocations in a row never carry the same
\* diagnostic, overlapping ticks included.
C33_CallbacksFollowTheStoredStatus ==
    [][ /\ lastEvent'.called =>
              /\ lastEvent'.op = "tick"
              /\ lastEvent'.flag <=> (lastEvent'.status.kind = "null")
              /\ statusMessage' = lastEvent'.status
              /\ lastEvent'.status # statusMessage
        /\ statusMessage' # statusMessage => lastEvent'.called ]_vars

\* C33 witness: of two ticks in flight together, one has completed and has
\* invoked the callback with (false, 'Not initialized'), now the stored status
C33_Witness ==
    /\ lastEvent.called /\ ~lastEvent.flag
    /\ lastEvent.status = NotInitialized /\ statusMessage = NotInitialized
    /\ TicksInFlight # {}

\* C34: of two overlapping ticks the one that started later decides the
\* stored status and the last callback: when the later tick has completed
\* first, the completion of the earlier tick changes neither.
C34_LaterTickWins ==
    [][ (/\ lastEvent.op = "tick" /\ lastEvent.position = 2
         /\ inflight # <<>> /\ inflight[1].op = "tick"
         /\ lastEvent'.op = "tick" /\ lastEvent'.position = 1
         /\ Len(inflight') = Len(inflight) - 1) =>
            /\ statusMessage' = statusMessage
            /\ ~lastEvent'.called ]_vars

(***************************************************************************)
(* Claims about overlapping init calls and the configuration (Spec)        *)
(***************************************************************************)
\* C35: under overlapping init calls initialized is true only if the init
\* call started last has completed successfully: when the init call started
\* last fails, the Session is not initialized, whatever an earlier init call
\* did in between.
C35_LastInitDecides ==
    [][ \A i \in InitCalls :
          (/\ inflight' = Remove(inflight, i)
           /\ \A j \in InitCalls : j <= i
           /\ lastEvent'.op = "init" /\ lastEvent'.result = "rejected") =>
              ~initialized' ]_vars

\* C36: in every reachable state, initialized implies that the gateway
\* address is set, with a scheme, the zone is set, the list of ISA endpoints
\* is not empty, and the server identifier is unset or one that a listing of
\* the zone resolves.
C36_InitializedIsConfigured ==
    initialized =>
        /\ gatewayUrl # "" /\ MatchesHttp(gatewayUrl)
        /\ zoneId # ""
        /\ ISAUrls # <<>>
        /\ serverId # 0 => \E servers \in Listings : Lists(servers, serverId)

\* C36 (amended): in every reachable state, initialized implies that the
\* gateway address is set and holds 'http' (init puts http:// before an
\* address that does not), and that the zone is set. The list
\* of ISA endpoints can be empty (connectToISA or an overlapping init replaces
\* it before it connects) and the server identifier can be one that no
\* listing resolved (setServerId stores the identifier before it resolves it
\* and keeps it when it fails).
C36_InitializedHasAddressAndZone ==
    initialized =>
        /\ gatewayUrl # "" /\ MatchesHttp(gatewayUrl)
        /\ zoneId # ""

\* C36 witness: an initialized Session whose setServerId(2) has failed holds
\* the identifier 2, which no listing resolves
C36_Witness ==
    /\ initialized /\ gatewayUrl = "http://gateway:3000" /\ zoneId = "default"
    /\ serverId = 2 /\ cachedServer = NoServer
    /\ lastEvent.op = "setServerId" /\ lastEvent.result = "rejected"
    /\ inflight = <<>>

(***************************************************************************)
(* Claim about dispose after two monitorServerStatus calls (SpecMonitors)  *)
(***************************************************************************)
\* C37: after dispose no tick is started, however many monitorServerStatus
\* calls went before: dispose after two calls has stopped both timers.
C37_DisposeStopsEveryTimer ==
    [][ disposed =>
          /\ \A t \in DOMAIN timers : ~timers[t]
          /\ Len(inflight') <= Len(inflight) ]_vars

(***************************************************************************)
(* Claim about lookups that find nothing (SpecCache)                       *)
(***************************************************************************)
\* C39: a lookup that finds no record is not cached: when getServer returns
\* null the cache is empty, and while it is empty a getServer(false) with a
\* server identifier configured sends a listing request; setServerId(undefined)
\* sends no request and resolves, and while no identifier is configured a
\* getServer call rejects with 'serverId not set' and empties the cache
\* instead of returning the record cached before.
C39_NothingFoundNothingCached ==
    [][ /\ (GetServerListingArrives /\ lastEvent'.result = "resolved"
            /\ lastEvent'.record = NoServer) =>
              /\ cachedServer' = NoServer
              /\ lastEvent'.listed = "absent"
        /\ (GetServerSettlesAtOnce /\ cachedServer = NoServer) =>
              /\ serverId = 0
              /\ lastEvent'.result = "rejected"
        /\ (serverId' = 0 /\ serverId # 0 /\ lastEvent'.op # "init") =>
              /\ lastEvent'.op = "setServerId" /\ lastEvent'.id = 0
              /\ lastEvent'.result = "resolved"
              /\ inflight' = inflight
        /\ (lastEvent'.op = "setServerId" /\ lastEvent'.id = 0) =>
              /\ lastEvent'.result = "resolved" /\ serverId' = 0
              /\ inflight' = inflight
        /\ (lastEvent'.op = "getServer" /\ serverId = 0 /\ inflight' = inflight) =>
              /\ lastEvent'.result = "rejected"
              /\ lastEvent'.error.message = "QuantelGatewayClient.serverId not set"
              /\ lastEvent'.record = NoServer
              /\ cachedServer' = NoServer ]_vars

\* C39 witness: the listing of a getServer call held no record of server 1;
\* the call has returned null and the cache is empty
C39_Witness ==
    /\ lastEvent.op = "getServer" /\ lastEvent.result = "resolved"
    /\ lastEvent.listed = "absent" /\ lastEvent.record = NoServer
    /\ serverId = 1 /\ cachedServer = NoServer

(***************************************************************************)
(* Claim about the connected flag between ticks (Spec)                     *)
(***************************************************************************)
\* C40: while the server stays present and up, connected stays true at every
\* point, also while a tick awaits its listing and while two ticks overlap:
\* the start of a tick on a connected Session leaves connected true.
C40_ConnectedAcrossTickStarts ==
    [][ (/\ connected
         /\ Len(inflight') = Len(inflight) + 1
         /\ inflight'[Len(inflight')].op = "tick") =>
            connected' ]_vars
====
